---- MODULE Spec2Model ----
(***************************************************************************)
(* Gravity (DevTools Bridge): the message-relay stack.                     *)
(*                                                                         *)
(*   native host  (src/native-host/index.js)    : the framing codec of the *)
(*                 stdio hop (sendToExtension / setupStdinReader)          *)
(*   bridge client (src/mcp-server/build/index.js, native-bridge part)     *)
(*                 : request correlation, deadlines, reconnects            *)
(*                                                                         *)
(* Bytes are integers.  Every byte fed to the decoder in this model is     *)
(* below 128, so readUInt32LE stays below 2^31 and is computed exactly.    *)
(***************************************************************************)
EXTENDS FiniteSets, Integers, Sequences, TLC

VARIABLES
  \* ---- native host: setupStdinReader (closure state) and its input ----
  buffer,         \* let buffer = Buffer.alloc(0)
  pendingLength,  \* let pendingLength = 0
  emitted,        \* messages handed to handleExtensionMessage, in order
  stdin,          \* bytes written by the peer and not yet read
  script          \* the items the peer writes (indices into ItemPool)

codecVars == <<buffer, pendingLength, emitted, stdin, script>>

VARIABLES
  \* ---- bridge client (native-bridge part of the MCP server) ----
  socket,              \* let socket = null (0) or the current WebSocket
  readyState,          \* readyState of every WebSocket created so far
  listeners,           \* whether the socket still has its event handlers
  isConnected,         \* let isConnected = false
  messageIdCounter,    \* let messageIdCounter = 1
  pendingCDPRequests,  \* Map id -> the call whose resolve/reject it holds
  timers,              \* calls whose deadline timer (setTimeout) is armed
  reconnectTimer,      \* let reconnectTimer = null (FALSE) or armed (TRUE)
  reconnectAttempts,   \* let reconnectAttempts = 0
  bridge,              \* "init", "started" (startNativeBridge), "stopped"
  calls,               \* the sendCDPCommand calls and their promises
  wire,                \* the requests written with socket.send, in order
  ensure,              \* the ensureConnected call: "idle", "polling", "true", "false"
  relayReady           \* environment: the relay listens and its peer slot is free

bridgeVars == <<socket, readyState, listeners, isConnected, messageIdCounter,
                pendingCDPRequests, timers, reconnectTimer, reconnectAttempts,
                bridge, calls, wire, ensure, relayReady>>

VARIABLES
  \* ---- native host: the WebSocket server that the bridge client connects to ----
  activeClient,   \* let activeClient = null (0) or the adopted peer
  peerState,      \* readyState of every peer socket the server has seen
  peerHandlers,   \* whether the message/close/error handlers were attached
  replaced,       \* history: peers that lost the reference before they closed
  inbox,          \* what activeClient.send wrote to each peer, in order
  arrivals,       \* number of messages handleExtensionMessage has been given
  wss,            \* the WebSocket server: "binding", "listening", "failed", "exited"
  wssError,       \* error.code of the server's 'error' event, "none" before one
  delivered,      \* how many messages of each peer's inbox its client has read
  policy,         \* the connection handler in use: "reject" (native-host/index.js)
                  \* or "replace" (the copy that always adopts the newcomer)
  draining,       \* peers the relay closed while they were open: their client
                  \* may still send until it sees the close
  downstream      \* the peers whose messages were framed and written to stdout

relayVars == <<policy, draining, downstream>>
hostVars ==
  <<activeClient, peerState, peerHandlers, replaced, inbox, arrivals, wss, wssError,
    delivered, relayVars>>

VARIABLES
  \* ---- one request followed through both deadline timers ----
  now,                \* the time in ms
  downstreamTimeout,  \* the delay of the extension's setTimeout in sendCDPCommand
  caller,             \* the bridge client's promise for the request
  sentAt,             \* when the bridge client armed its deadline timer
  ext,                \* the extension's sendCDPCommand: "idle", "running", "answered"
  extStart,           \* when the extension armed its timer
  response            \* the cdp_response on its way to the bridge client

clockVars == <<now, downstreamTimeout, caller, sentAt, ext, extStart, response>>

VARIABLES
  \* ---- one diagnose_layout call ----
  phase,     \* "idle", "collected" (steps 1-5 done), "done", "failed"
  snapshot,  \* what the CDP round trips returned: model, viewport, styleMap
  report     \* the result object the handler builds

diagVars == <<phase, snapshot, report>>

VARIABLES
  \* ---- one tool call at the CallToolRequestSchema handler ----
  call,   \* request.params: the tool's name and the selector argument
  step,   \* where the handler is: "idle", "connecting", "calling", "awaiting", "returned"
  sent,   \* the methods given to the transport by sendCDPCommand, in order
  fault,  \* what went wrong in the call, "none" when nothing did
  reply   \* what the handler returned

toolVars == <<call, step, sent, fault, reply>>

VARIABLES
  \* ---- the bridge client process across restarts, and the requests at the downstream peer ----
  instance,   \* which bridge client process is running (the first is 1)
  taken,      \* how many entries of wire the downstream peer has received
  atPeer,     \* requests the downstream peer has received and not answered
  answered    \* history: for each response, whose request it answered and
              \* whose request it settled (0: none)

restartVars == <<instance, taken, atPeer, answered>>

VARIABLES
  \* ---- the extension's background script and the browser it talks to ----
  debuggerTabId,        \* let debuggerTabId = null (0)
  debuggerState,        \* attached, tabId (0: null), domainsEnabled
  nativePort,           \* let nativePort = null (0) or the port of the n-th connectNative
  nativeHostConnected,  \* let nativeHostConnected = false
  connects,             \* number of chrome.runtime.connectNative calls so far
  tabs,                 \* browser: the tabs that exist
  session,              \* browser: the tabs this extension's debugger is attached to
  chrome,               \* browser: callbacks and events not yet delivered, in order
  ops,                  \* the attachDebugger, detachDebugger and handleNativeMessage
                        \* calls and where each is suspended
  posted,               \* what nativePort.postMessage was given, in order
  executed,             \* history: the requests the browser ran a command for
  events                \* how many user actions, failing calls and timeouts so far

extVars ==
  <<debuggerTabId, debuggerState, nativePort, nativeHostConnected, connects, tabs, session,
    chrome, ops, posted, executed, events>>

vars ==
  <<codecVars, bridgeVars, hostVars, clockVars, diagVars, toolVars, restartVars, extVars>>

\* what the steps of one component leave alone
outsideRestart == <<codecVars, hostVars, clockVars, diagVars, toolVars, extVars>>
outsideExt ==
  <<codecVars, bridgeVars, hostVars, clockVars, diagVars, toolVars, restartVars>>
outsideCodec == <<bridgeVars, hostVars, clockVars, diagVars, toolVars, restartVars, extVars>>
outsideBridge == <<codecVars, hostVars, clockVars, diagVars, toolVars, restartVars, extVars>>
outsideHost == <<codecVars, bridgeVars, clockVars, diagVars, toolVars, restartVars, extVars>>
outsideClock == <<codecVars, bridgeVars, hostVars, diagVars, toolVars, restartVars, extVars>>
outsideDiag == <<codecVars, bridgeVars, hostVars, clockVars, toolVars, restartVars, extVars>>
outsideTool == <<codecVars, bridgeVars, hostVars, clockVars, diagVars, restartVars, extVars>>

(***************************************************************************)
(* Bounds                                                                  *)
(***************************************************************************)
MaxItems == 2     \* items written to stdin in one behaviour
MaxChunk == 5     \* largest partial chunk (a chunk may also be "all the rest")
MaxCalls == 2     \* sendCDPCommand calls in one behaviour
MaxSockets == 3   \* WebSockets created in one behaviour
MaxDispatches == 1  \* sendCDPCommand calls interleaved with ensureConnected
MaxPeers == 3     \* connections the relay's server accepts in one behaviour
MaxForwards == 2  \* messages the extension sends to the relay in one behaviour
MaxClock == 13000 \* the clock stops advancing at this time (ms)
MaxStyles == 2    \* computed-style properties present in one snapshot
MaxSelector == 3  \* characters in a selector argument
MaxRequests == 2  \* messages the peers send to the relay in one behaviour

(***************************************************************************)
(* Bytes                                                                   *)
(***************************************************************************)
LBrace == 123        \* 0x7B
RBrace == 125        \* 0x7D
Backslash == 92      \* 0x5C
Quote == 34          \* 0x22
Colon == 58
Comma == 44
Garbage == 127       \* a byte that is no JSON token and no small length
MaxMessageLength == 104857600   \* 100 * 1024 * 1024

\* character codes of the text used in envelopes
Lower ==
  << "a", "b", "c", "d", "e", "f", "g", "h", "i", "j", "k", "l", "m",
     "n", "o", "p", "q", "r", "s", "t", "u", "v", "w", "x", "y", "z" >>
Punct == [c \in {"-", "_", "."} |-> CASE c = "-" -> 45 [] c = "_" -> 95 [] OTHER -> 46]

Ord(c) ==
  IF c \in DOMAIN Punct THEN Punct[c]
  ELSE 96 + CHOOSE i \in 1..Len(Lower) : Lower[i] = c

\* Buffer.from(chars, 'utf8') for ASCII text given as one-character strings
Utf8(chars) == [i \in 1..Len(chars) |-> Ord(chars[i])]

Slice(buf, from) == SubSeq(buf, from + 1, Len(buf))          \* buf.slice(from)
SliceTo(buf, from, to) == SubSeq(buf, from + 1, to)           \* buf.slice(from, to)

\* the element of a one-element set: The({ e : x \in {v} }) is e with x = v,
\* v computed once
The(S) == CHOOSE x \in S : TRUE

RECURSIVE Concat(_)
Concat(seqs) == IF seqs = <<>> THEN <<>> ELSE Head(seqs) \o Concat(Tail(seqs))

(***************************************************************************)
(* JSON values.  One record shape for every value:                         *)
(*   t : "obj" | "str" | "num" | "bool" | "null"                           *)
(*   n : the number (num), 1/0 (bool)                                      *)
(*   s : the characters (str)                                              *)
(*   m : the members <<[k |-> chars, v |-> value]>> in insertion order     *)
(***************************************************************************)
JNull == [t |-> "null", n |-> 0, s |-> <<>>, m |-> <<>>]
JNum(x) == [t |-> "num", n |-> x, s |-> <<>>, m |-> <<>>]
JBool(b) == [t |-> "bool", n |-> IF b THEN 1 ELSE 0, s |-> <<>>, m |-> <<>>]
JStr(chars) == [t |-> "str", n |-> 0, s |-> chars, m |-> <<>>]
JObj(members) == [t |-> "obj", n |-> 0, s |-> <<>>, m |-> members]
Member(key, val) == [k |-> key, v |-> val]

RECURSIVE Digits(_)
Digits(x) == IF x < 10 THEN <<48 + x>> ELSE Append(Digits(x \div 10), 48 + (x % 10))

RECURSIVE EscapeChars(_)
EscapeChars(chars) ==
  IF chars = <<>> THEN <<>>
  ELSE LET c == Head(chars) IN
       (IF c = Quote \/ c = Backslash THEN <<Backslash, c>> ELSE <<c>>)
         \o EscapeChars(Tail(chars))

QuoteString(chars) == <<Quote>> \o EscapeChars(chars) \o <<Quote>>

\* JSON.stringify(value), as bytes
RECURSIVE JSONStringify(_)
RECURSIVE StringifyMembers(_)
StringifyMembers(members) ==
  IF members = <<>> THEN <<>>
  ELSE QuoteString(Head(members).k) \o <<Colon>> \o JSONStringify(Head(members).v)
         \o (IF Len(members) > 1 THEN <<Comma>> ELSE <<>>)
         \o StringifyMembers(Tail(members))
JSONStringify(val) ==
  CASE val.t = "obj"  -> <<LBrace>> \o StringifyMembers(val.m) \o <<RBrace>>
    [] val.t = "str"  -> QuoteString(val.s)
    [] val.t = "num"  -> Digits(val.n)
    [] val.t = "bool" -> IF val.n = 1 THEN Utf8(<<"t","r","u","e">>)
                                      ELSE Utf8(<<"f","a","l","s","e">>)
    [] OTHER          -> Utf8(<<"n","u","l","l">>)

(***************************************************************************)
(* JSON.parse(bytes.toString('utf8')) for the JSON that occurs here:       *)
(* objects, strings with the escapes \" and \\, non-negative integers,     *)
(* true, false, null, white space between tokens.  Everything else throws  *)
(* (ok = FALSE); in particular any control byte (< 0x20) is rejected.      *)
(***************************************************************************)
ParseFail == [ok |-> FALSE, val |-> JNull, p |-> 0]
ParseOk(val, p) == [ok |-> TRUE, val |-> val, p |-> p]

IsDigit(b) == b >= 48 /\ b <= 57

RECURSIVE SkipWs(_, _)
SkipWs(b, p) ==
  IF p <= Len(b) /\ b[p] \in {32, 9, 10, 13} THEN SkipWs(b, p + 1) ELSE p

\* one character of a string literal; st.e: the previous byte was a backslash
CharStep(b, st, j) ==
  IF st.done \/ ~st.ok THEN st
  ELSE IF st.e
       THEN IF b[j] \in {Quote, Backslash}
            THEN [st EXCEPT !.e = FALSE, !.acc = Append(@, b[j])]
            ELSE [st EXCEPT !.ok = FALSE]
  ELSE IF b[j] = Quote THEN [st EXCEPT !.done = TRUE, !.p = j + 1]
  ELSE IF b[j] = Backslash THEN [st EXCEPT !.e = TRUE]
  ELSE IF b[j] < 32 THEN [st EXCEPT !.ok = FALSE]
  ELSE [st EXCEPT !.acc = Append(@, b[j])]

\* CharStep over the positions lo..hi-1, left to right (halving keeps the
\* evaluation shallow)
RECURSIVE CharFold(_, _, _, _)
CharFold(b, st, lo, hi) ==
  IF hi <= lo THEN st
  ELSE IF hi = lo + 1 THEN CharStep(b, st, lo)
  ELSE The({ The({ IF left.done \/ ~left.ok THEN left ELSE CharFold(b, left, mid, hi) :
                    left \in {CharFold(b, st, lo, mid)} }) :
               mid \in {(lo + hi) \div 2} })

\* the characters of a string literal whose opening quote precedes p
ParseChars(b, p) ==
  The({ IF st.ok /\ st.done THEN ParseOk(JStr(st.acc), st.p) ELSE ParseFail :
          st \in {CharFold(b, [ok |-> TRUE, done |-> FALSE, e |-> FALSE,
                               acc |-> <<>>, p |-> 0], p, Len(b) + 1)} })

RECURSIVE ParseDigits(_, _, _)
ParseDigits(b, p, acc) ==
  IF p <= Len(b) /\ IsDigit(b[p])
  THEN ParseDigits(b, p + 1, 10 * acc + (b[p] - 48))
  ELSE ParseOk(JNum(acc), p)

ParseLiteral(b, p, text, val) ==
  IF p + Len(text) - 1 <= Len(b) /\ SubSeq(b, p, p + Len(text) - 1) = text
  THEN ParseOk(val, p + Len(text))
  ELSE ParseFail

RECURSIVE ParseValue(_, _)
RECURSIVE ParseMembers(_, _, _)
\* p is at the key of the next member
ParseMembers(b, p0, acc) ==
  LET AfterValue(key, v) ==
        The({ IF pe > Len(b) THEN ParseFail
              ELSE IF b[pe] = RBrace THEN ParseOk(JObj(members), pe + 1)
              ELSE IF b[pe] = Comma THEN ParseMembers(b, pe + 1, members)
              ELSE ParseFail :
                pe \in {SkipWs(b, v.p)},
                members \in {Append(acc, Member(key.val.s, v.val))} })
      AfterKey(key) ==
        The({ IF pc > Len(b) \/ b[pc] # Colon THEN ParseFail
              ELSE The({ IF ~v.ok THEN ParseFail ELSE AfterValue(key, v) :
                           v \in {ParseValue(b, pc + 1)} }) :
                pc \in {SkipWs(b, key.p)} })
  IN The({ IF p > Len(b) \/ b[p] # Quote THEN ParseFail
           ELSE The({ IF ~key.ok THEN ParseFail ELSE AfterKey(key) :
                        key \in {ParseChars(b, p + 1)} }) :
             p \in {SkipWs(b, p0)} })

ParseValue(b, p0) ==
  The({
  IF p > Len(b) THEN ParseFail
  ELSE IF b[p] = LBrace
       THEN LET q == SkipWs(b, p + 1) IN
            IF q <= Len(b) /\ b[q] = RBrace THEN ParseOk(JObj(<<>>), q + 1)
            ELSE ParseMembers(b, p + 1, <<>>)
  ELSE IF b[p] = Quote THEN ParseChars(b, p + 1)
  ELSE IF IsDigit(b[p])
       THEN IF b[p] = 48 /\ p + 1 <= Len(b) /\ IsDigit(b[p + 1]) THEN ParseFail
            ELSE ParseDigits(b, p, 0)
  ELSE IF b[p] = Ord("t") THEN ParseLiteral(b, p, Utf8(<<"t","r","u","e">>), JBool(TRUE))
  ELSE IF b[p] = Ord("f") THEN ParseLiteral(b, p, Utf8(<<"f","a","l","s","e">>), JBool(FALSE))
  ELSE IF b[p] = Ord("n") THEN ParseLiteral(b, p, Utf8(<<"n","u","l","l">>), JNull)
  ELSE ParseFail
  : p \in {SkipWs(b, p0)} })

JSONParse(b) ==
  The({ The({ IF r.ok /\ SkipWs(text, r.p) = Len(text) + 1
              THEN [ok |-> TRUE, val |-> r.val]
              ELSE [ok |-> FALSE, val |-> JNull] :
                r \in {ParseValue(text, 1)} }) :
          text \in {b} })

(***************************************************************************)
(* Native host: framing                                                    *)
(***************************************************************************)
\* headerBuffer.writeUInt32LE(n, 0)
writeUInt32LE(n) ==
  << n % 256, (n \div 256) % 256, (n \div 65536) % 256, (n \div 16777216) % 256 >>

\* buffer.readUInt32LE(0)
readUInt32LE(buf) == buf[1] + 256 * buf[2] + 65536 * buf[3] + 16777216 * buf[4]

\* the bytes sendToExtension writes for a message
sendToExtension(message) ==
  LET bodyBuffer == JSONStringify(message)
      headerBuffer == writeUInt32LE(Len(bodyBuffer))
  IN headerBuffer \o bodyBuffer

\* the decoder's call of handleExtensionMessage(message), recorded in order
Deliver(out, message) == Append(out, message)

\* first index i < min(buffer.length, 10) with buffer[i] = '{', else -1
jsonStart(buf) ==
  LET hits == {i \in 0..(IF Len(buf) < 10 THEN Len(buf) ELSE 10) - 1 : buf[i + 1] = LBrace}
  IN IF hits = {} THEN -1 ELSE CHOOSE i \in hits : \A j \in hits : i <= j

\* one iteration of the for loop that looks for the end of unprefixed JSON.
\* st holds the loop's locals braceCount, inString, escaped, the closure's
\* buffer (reassigned inside the loop while i keeps counting) and the
\* messages delivered so far; the loop condition i < buffer.length is
\* evaluated against the current buffer.
ScanStep(st, i) ==
  IF i >= Len(st.buffer) THEN st
  ELSE LET byte == st.buffer[i + 1] IN
       IF st.escaped THEN [st EXCEPT !.escaped = FALSE]
       ELSE IF byte = Backslash THEN [st EXCEPT !.escaped = TRUE]
       ELSE IF byte = Quote THEN [st EXCEPT !.inString = ~@]
       ELSE IF st.inString THEN st
       ELSE LET bc == st.braceCount + (IF byte = LBrace THEN 1 ELSE 0)
                                    - (IF byte = RBrace THEN 1 ELSE 0)
            IN IF bc = 0 /\ i > 0
               THEN The({ [st EXCEPT !.braceCount = bc,
                                     !.buffer = Slice(@, i + 1),
                                     !.out = IF parsed.ok THEN Deliver(@, parsed.val)
                                             ELSE @] :
                            parsed \in {JSONParse(SliceTo(st.buffer, 0, i + 1))} })
               ELSE [st EXCEPT !.braceCount = bc]

\* ScanStep for i = lo .. hi-1 (halving keeps the evaluation shallow)
RECURSIVE ScanFold(_, _, _)
ScanFold(st, lo, hi) ==
  IF hi <= lo THEN st
  ELSE IF hi = lo + 1 THEN ScanStep(st, lo)
  ELSE The({ The({ IF mid >= Len(left.buffer) THEN left ELSE ScanFold(left, mid, hi) :
                    left \in {ScanFold(st, lo, mid)} }) :
               mid \in {(lo + hi) \div 2} })

\* for (let i = 0; i < buffer.length; i++) { ... }
ScanJson(buf, out) ==
  The({ ScanFold(st, 0, Len(st.buffer)) :
          st \in {[buffer |-> buf, out |-> out, braceCount |-> 0,
                   inString |-> FALSE, escaped |-> FALSE]} })

\* the while (true) loop of the 'readable' handler, run until its break
RECURSIVE ReadLoop(_, _, _)
ReadLoop(buf, pending, out) ==
  LET Stop(b, p, o) == [buffer |-> b, pendingLength |-> p, out |-> o]
      Again(b, o) == The({ ReadLoop(rest, 0, o) : rest \in {b} })
      Body(b, p, o) ==
        IF Len(b) < p THEN Stop(b, p, o)
        ELSE The({ Again(Slice(b, p), IF parsed.ok THEN Deliver(o, parsed.val) ELSE o) :
                     parsed \in {JSONParse(SliceTo(b, 0, p))} })
  IN IF pending = 0
     THEN IF Len(buf) < 4 THEN Stop(buf, pending, out)
          ELSE The({
               IF start >= 0
               THEN The({ Stop(r.buffer, 0, r.out) :
                            r \in {ScanJson(Slice(buf, start), out)} })
               ELSE IF readUInt32LE(buf) > MaxMessageLength
                    THEN Again(Slice(buf, 1), out)
               ELSE The({ Body(rest, readUInt32LE(buf), out) : rest \in {Slice(buf, 4)} })
               : start \in {jsonStart(buf)} })
     ELSE Body(buf, pending, out)

(***************************************************************************)
(* Envelopes and the items a peer may write to the host's stdin            *)
(***************************************************************************)
TypeKey == Utf8(<<"t","y","p","e">>)
Text(chars) == JStr(Utf8(chars))

KeepAlive == JObj(<< Member(TypeKey, Text(<<"k","e","e","p","-","a","l","i","v","e">>)) >>)

Status ==
  JObj(<< Member(TypeKey, Text(<<"s","t","a","t","u","s">>)),
          Member(Utf8(<<"c","o","n","n","e","c","t","e","d">>), JBool(TRUE)) >>)

CdpResponse(id, result) ==
  JObj(<< Member(TypeKey, Text(<<"c","d","p","_","r","e","s","p","o","n","s","e">>)),
          Member(Utf8(<<"i","d">>), JNum(id)),
          Member(Utf8(<<"r","e","s","u","l","t">>), result) >>)

ValueResult(chars) == JObj(<< Member(Utf8(<<"v","a","l","u","e">>), JStr(chars)) >>)

\* a result whose string holds braces, a quote and a backslash
TrickyResponse == CdpResponse(2, ValueResult(<<RBrace, Quote, LBrace, Backslash>>))

\* a response whose JSON text is 123 (0x7B) bytes long
PadLength == 71
BraceLengthResponse == CdpResponse(3, ValueResult([i \in 1..PadLength |-> Ord("x")]))

GoodItem(env) == [good |-> TRUE, env |-> env, bytes |-> sendToExtension(env)]
BadItem(bytes) == [good |-> FALSE, env |-> JNull, bytes |-> bytes]

\* a frame whose payload is not valid JSON
BadPayloadFrame(payload) == BadItem(writeUInt32LE(Len(payload)) \o payload)

ItemPool ==
  << GoodItem(KeepAlive),
     GoodItem(Status),
     GoodItem(CdpResponse(1, JObj(<<>>))),
     GoodItem(TrickyResponse),
     GoodItem(BraceLengthResponse),
     \* a length prefix above the sanity ceiling
     BadItem(<<Garbage, Garbage, Garbage, Garbage>>),
     \* JSON without a length prefix
     BadItem(JSONStringify(Status)),
     \* frames whose payload does not parse
     BadPayloadFrame(Utf8(<<"o","o","p","s">>)),
     BadPayloadFrame(SliceTo(JSONStringify(KeepAlive), 0, 8)) >>

Scripts == UNION {[1..n -> 1..Len(ItemPool)] : n \in 1..MaxItems}

StreamOf(sc) == Concat([i \in 1..Len(sc) |-> ItemPool[sc[i]].bytes])

\* the envelopes of the well-formed frames of a script, in order
RECURSIVE EnvelopesOf(_)
EnvelopesOf(sc) ==
  IF sc = <<>> THEN <<>>
  ELSE (IF ItemPool[Head(sc)].good THEN <<ItemPool[Head(sc)].env>> ELSE <<>>)
         \o EnvelopesOf(Tail(sc))

AllGood(sc) == \A i \in 1..Len(sc) : ItemPool[sc[i]].good

(***************************************************************************)
(* Bridge client: module state after load                                  *)
(***************************************************************************)
Calls == 1..MaxCalls
Sockets == 1..MaxSockets
Results == {"r1", "r2"}

\* a call: pc is its position in sendCDPCommand, id its request ID, origin the
\* socket that was current when the ID was taken, outcome/value the state of
\* its promise, settles the number of resolve/reject invocations on it.
\* History only: via is the id carried by the response that settled it, late
\* records that a response carrying its id arrived while that id was not in
\* the table (the "unknown request id" log line).
NoCall == [pc |-> "idle", id |-> 0, origin |-> 0, outcome |-> "none",
           value |-> "none", settles |-> 0, via |-> 0, late |-> FALSE]

EmptyMap == [i \in {} |-> 0]

BridgeLoaded ==
  /\ socket = 0
  /\ readyState = [s \in Sockets |-> "UNBORN"]
  /\ listeners = [s \in Sockets |-> FALSE]
  /\ isConnected = FALSE
  /\ messageIdCounter = 1
  /\ pendingCDPRequests = EmptyMap
  /\ timers = {}
  /\ reconnectTimer = FALSE
  /\ reconnectAttempts = 0
  /\ bridge = "init"
  /\ calls = [c \in Calls |-> NoCall]
  /\ wire = <<>>
  /\ ensure = "idle"

(***************************************************************************)
(* Native host: module state after load                                    *)
(***************************************************************************)
Peers == 1..MaxPeers

CodecLoaded ==
  /\ script = <<>> /\ stdin = <<>> /\ buffer = <<>> /\ pendingLength = 0
  /\ emitted = <<>>

HostState ==
  /\ activeClient = 0
  /\ peerState = [p \in Peers |-> "UNBORN"]
  /\ peerHandlers = [p \in Peers |-> FALSE]
  /\ replaced = {}
  /\ inbox = [p \in Peers |-> <<>>]
  /\ arrivals = 0
  /\ wss = "binding" /\ wssError = "none"
  /\ delivered = [p \in Peers |-> 0]
  /\ draining = {} /\ downstream = <<>>

HostLoaded == HostState /\ policy = "reject"

ClockLoaded ==
  /\ now = 0 /\ downstreamTimeout = 0 /\ caller = "idle" /\ sentAt = 0
  /\ ext = "idle" /\ extStart = 0 /\ response = "none"

Undefined == "<undefined>"   \* what Map.get returns for an absent key
NoSnapshot ==
  [model |-> [content |-> <<0, 0, 0, 0, 0, 0, 0, 0>>, width |-> 0, height |-> 0],
   viewport |-> [clientWidth |-> 0, clientHeight |-> 0],
   styleMap |-> [p \in {} |-> Undefined]]
NoReport ==
  [status |-> "none", issues |-> <<>>, confidence |-> 0,
   summary |-> [totalIssues |-> 0, highSeverity |-> 0,
                mediumSeverity |-> 0, lowSeverity |-> 0]]
DiagLoaded == phase = "idle" /\ snapshot = NoSnapshot /\ report = NoReport

RestartLoaded == instance = 1 /\ taken = 0 /\ atPeer = {} /\ answered = {}

MaxOps == 2     \* attachDebugger, detachDebugger and cdp_request calls in one behaviour
MaxEvents == 1  \* user actions, failing browser calls and timeouts in one behaviour
MaxInstances == 2  \* bridge client processes started one after the other

\* the browser's tabs: ordinary pages, a chrome:// page, and an id no tab has
Pages == {1, 2}
SystemPages == {3}
TabIds == Pages \cup SystemPages \cup {4}

OpIds == 1..MaxOps

\* an operation of the background script: pc is where it is suspended, tab
\* its argument, calls the number of browser calls it has made, await the
\* call whose callback it waits for (0: none), k the number of domains
\* enabled, j the domain being disabled, failedAt the step of attachDebugger
\* that threw, result what it returned
NoOp ==
  [kind |-> "none", pc |-> "idle", failedAt |-> "none", tab |-> 0, calls |-> 0, await |-> 0, k |-> 0, j |-> 0, result |-> "none"]

NoDebugger == [attached |-> FALSE, tabId |-> 0, domainsEnabled |-> FALSE]

ExtensionLoaded ==
  /\ debuggerTabId = 0 /\ debuggerState = NoDebugger
  /\ nativePort = 0 /\ nativeHostConnected = FALSE /\ connects = 0
  /\ tabs = Pages \cup SystemPages /\ session = {} /\ chrome = <<>>
  /\ ops = [o \in OpIds |-> NoOp]
  /\ posted = <<>> /\ executed = {} /\ events = 0

NoToolCall == [name |-> "none", present |-> FALSE, selector |-> <<>>]
NoReply == [isError |-> FALSE, text |-> "none"]
ToolLoaded ==
  call = NoToolCall /\ step = "idle" /\ sent = <<>> /\ fault = "none" /\ reply = NoReply

(***************************************************************************)
(* Native host: the stdin reader as a state machine                        *)
(***************************************************************************)
InitCodec ==
  /\ script \in Scripts
  /\ stdin = StreamOf(script)
  /\ buffer = <<>>
  /\ pendingLength = 0
  /\ emitted = <<>>
  /\ BridgeLoaded /\ relayReady = FALSE
  /\ HostLoaded
  /\ ClockLoaded
  /\ DiagLoaded
  /\ ToolLoaded
  /\ RestartLoaded /\ ExtensionLoaded

\* one chunk of n bytes returned by process.stdin.read() in the 'readable'
\* handler: appended to the buffer, then the loop runs until it breaks
StdinReadable(n) ==
  /\ n >= 1 /\ n <= Len(stdin)
  /\ LET chunk == SubSeq(stdin, 1, n)
         r == ReadLoop(buffer \o chunk, pendingLength, emitted)
     IN /\ buffer' = r.buffer
        /\ pendingLength' = r.pendingLength
        /\ emitted' = r.out
  /\ stdin' = Slice(stdin, n)
  /\ UNCHANGED <<script, outsideCodec>>

ChunkSizes == (1..MaxChunk) \cup {Len(stdin)}

NextCodec == \E n \in ChunkSizes : StdinReadable(n)

SpecCodec == InitCodec /\ [][NextCodec]_vars

(***************************************************************************)
(* Bridge client: helpers                                                  *)
(***************************************************************************)
\* Map.prototype.set / delete / get on pendingCDPRequests
MapSet(map, id, c) == [i \in DOMAIN map \cup {id} |-> IF i = id THEN c ELSE map[i]]
MapDelete(map, id) == [i \in DOMAIN map \ {id} |-> map[i]]
MapGet(map, id) == IF id \in DOMAIN map THEN map[id] ELSE 0
MapValues(map) == {map[i] : i \in DOMAIN map}

\* export function isNativeHostConnected()
isNativeHostConnected == socket # 0 /\ readyState[socket] = "OPEN"

\* socket.close() on a socket in state st
CloseCalled(st) == IF st \in {"CONNECTING", "OPEN"} THEN "CLOSING" ELSE st

Created == {s \in Sockets : readyState[s] # "UNBORN"}
Fresh == Cardinality(Created) + 1

\* mutant: the counter is read but not incremented
NextCounterStuck(counter) == counter

\* const id = messageIdCounter++ : the counter after the statement
NextCounter(counter) == counter + 1

\* resolve(...) / reject(...) of call c's promise: the first one settles it
SettleBy(cs, c, outcome, value, via) ==
  [cs EXCEPT ![c] = IF @.outcome = "none"
                    THEN [@ EXCEPT !.pc = "done", !.outcome = outcome,
                                   !.value = value, !.via = via, !.settles = @ + 1]
                    ELSE [@ EXCEPT !.settles = @ + 1]]
Settle(cs, c, outcome, value) == SettleBy(cs, c, outcome, value, 0)

\* mutant: only the first entry of the table is rejected
RejectFirst(cs, map, outcome) ==
  IF DOMAIN map = {} THEN cs
  ELSE Settle(cs, map[CHOOSE i \in DOMAIN map : \A j \in DOMAIN map : i <= j],
              outcome, "none")

\* for (const [id, pending] of pendingCDPRequests) pending.reject(error)
RejectAll(cs, map, outcome) ==
  [c \in Calls |-> IF c \in MapValues(map) THEN Settle(cs, c, outcome, "none")[c] ELSE cs[c]]

\* mutant: the request overtakes the ones written before it
SocketSendFirst(w, entry) == <<entry>> \o w

\* socket.send(JSON.stringify(message)) that did not throw
SocketSend(w, entry) == Append(w, entry)

\* mutant: the old socket keeps its handlers
DetachNothing(ls, s) == ls

\* if (socket) socket.removeAllListeners()
Detach(ls, s) == IF s # 0 THEN [ls EXCEPT ![s] = FALSE] ELSE ls

\* mutant: the reconnect timer is left armed
StopTimerForgotten(t) == t

\* if (reconnectTimer) { clearTimeout(reconnectTimer); reconnectTimer = null }
StopTimer(t) == FALSE

\* mutant: at most one attempt in a row
MayReconnectOnce(attempts) == attempts < 1

\* reconnectAttempts < MAX_RECONNECT_ATTEMPTS, which is Infinity
MayReconnect(attempts) == TRUE

\* mutant: the connection attempt is not scheduled
ReconnectBeginUnscheduled ==
  /\ readyState' = IF socket # 0 THEN [readyState EXCEPT ![socket] = CloseCalled(@)]
                                 ELSE readyState
  /\ listeners' = Detach(listeners, socket)
  /\ socket' = 0
  /\ isConnected' = FALSE
  /\ reconnectAttempts' = 0
  /\ reconnectTimer' = reconnectTimer

\* reconnect(timeoutMs), the part before its polling loop: tear down the
\* current socket, reset the state, scheduleConnect(true)
ReconnectBegin ==
  /\ readyState' = IF socket # 0 THEN [readyState EXCEPT ![socket] = CloseCalled(@)]
                                 ELSE readyState
  /\ listeners' = Detach(listeners, socket)
  /\ socket' = 0
  /\ isConnected' = FALSE
  /\ reconnectAttempts' = 0
  /\ reconnectTimer' = TRUE

\* sendCDPCommand from "const id = messageIdCounter++" to the end of the
\* promise executor; throws: socket.send (or JSON.stringify) throws
Dispatch(c, throws) ==
  LET id == messageIdCounter
      stored == MapSet(pendingCDPRequests, id, c)
  IN /\ messageIdCounter' = NextCounter(messageIdCounter)
     /\ IF ~throws
        THEN /\ timers' = timers \cup {c}
             /\ pendingCDPRequests' = stored
             /\ wire' = SocketSend(wire, [id |-> id, sock |-> socket, retry |-> FALSE])
             /\ calls' = [calls EXCEPT ![c].pc = "pending", ![c].id = id,
                                       ![c].origin = socket]
             /\ UNCHANGED <<socket, readyState, listeners, isConnected,
                            reconnectAttempts, reconnectTimer>>
        ELSE /\ timers' = (timers \cup {c}) \ {c}
             /\ pendingCDPRequests' = MapDelete(stored, id)
             /\ wire' = wire
             /\ calls' = [calls EXCEPT ![c].pc = "retryWait", ![c].id = id,
                                       ![c].origin = socket]
             /\ ReconnectBegin

\* mutant: an unknown id falls back to the oldest pending entry
PendingOrOldest(map, message) ==
  IF message.id \in DOMAIN map THEN map[message.id]
  ELSE IF DOMAIN map = {} THEN 0
  ELSE map[CHOOSE i \in DOMAIN map : \A j \in DOMAIN map : i <= j]

\* mutant: responses are matched to requests in arrival order
PendingOldest(map, message) ==
  IF DOMAIN map = {} THEN 0
  ELSE map[CHOOSE i \in DOMAIN map : \A j \in DOMAIN map : i <= j]

\* the cdp_response branch of handleNativeMessage: the pending entry found
PendingFor(map, message) == MapGet(map, message.id)

\* mutant: any envelope carrying a pending id settles the request
CorrelatesById(message, pending) == pending # 0
\* if (message.type === 'cdp_response') { ... if (pending) { ... } }
Correlates(message, pending) == message.type = "cdp_response" /\ pending # 0

\* function handleNativeMessage(message): the new timers, table and calls
handleNativeMessage(message) ==
  LET pending == PendingFor(pendingCDPRequests, message) IN
  IF Correlates(message, pending)
  THEN [timers |-> timers \ {pending},
        map |-> MapDelete(pendingCDPRequests, message.id),
        calls |-> IF message.error
                  THEN SettleBy(calls, pending, "remote_error", "none", message.id)
                  ELSE SettleBy(calls, pending, "resolved", message.result, message.id)]
  ELSE [timers |-> timers, map |-> pendingCDPRequests, calls |-> calls]

\* the envelopes the native host may deliver
Messages ==
  [type : {"cdp_response"}, id : 1..MaxCalls, error : {FALSE}, result : Results]
    \cup [type : {"cdp_response"}, id : 1..MaxCalls, error : {TRUE}, result : {"none"}]

(***************************************************************************)
(* Bridge client: operations and events                                    *)
(***************************************************************************)
InitBridge ==
  /\ BridgeLoaded
  /\ relayReady = FALSE
  /\ CodecLoaded
  /\ HostLoaded
  /\ ClockLoaded
  /\ DiagLoaded
  /\ ToolLoaded
  /\ RestartLoaded /\ ExtensionLoaded

\* export function startNativeBridge(port): scheduleConnect(true)
StartNativeBridge ==
  /\ bridge = "init"
  /\ bridge' = "started"
  /\ reconnectTimer' = TRUE
  /\ UNCHANGED <<socket, readyState, listeners, isConnected, messageIdCounter,
                 pendingCDPRequests, timers, reconnectAttempts, calls, wire>>
  /\ UNCHANGED <<ensure, relayReady, outsideBridge>>

\* the reconnect timer fires: reconnectTimer = null; attemptConnect()
ReconnectTimerFires ==
  /\ reconnectTimer
  /\ reconnectTimer' = FALSE
  /\ IF isNativeHostConnected
     THEN UNCHANGED <<socket, readyState, listeners, reconnectAttempts>>
     ELSE /\ Fresh \in Sockets
          /\ readyState' = [s \in Sockets |->
                              IF s = Fresh THEN "CONNECTING"
                              ELSE IF s = socket THEN CloseCalled(readyState[s])
                              ELSE readyState[s]]
          /\ listeners' = [s \in Sockets |-> IF s = Fresh THEN TRUE
                                           ELSE Detach(listeners, socket)[s]]
          /\ socket' = Fresh
          /\ reconnectAttempts' = reconnectAttempts + 1
  /\ UNCHANGED <<isConnected, messageIdCounter, pendingCDPRequests, timers,
                 bridge, calls, wire>>
  /\ UNCHANGED <<ensure, relayReady, outsideBridge>>

\* ws.on('open')
WsOpen(s) ==
  /\ readyState[s] = "CONNECTING"
  /\ readyState' = [readyState EXCEPT ![s] = "OPEN"]
  /\ IF listeners[s]
     THEN isConnected' = TRUE /\ reconnectAttempts' = 0
     ELSE UNCHANGED <<isConnected, reconnectAttempts>>
  /\ UNCHANGED <<socket, listeners, messageIdCounter, pendingCDPRequests, timers,
                 reconnectTimer, bridge, calls, wire>>
  /\ UNCHANGED <<ensure, relayReady, outsideBridge>>

\* ws.on('message') with a message that parses
WsMessage(s, message) ==
  /\ readyState[s] = "OPEN" /\ listeners[s]
  /\ LET r == handleNativeMessage(message)
         unknown == message.id \notin DOMAIN pendingCDPRequests
     IN /\ timers' = r.timers
        /\ pendingCDPRequests' = r.map
        /\ calls' = [c \in Calls |->
                       IF unknown /\ calls[c].id = message.id
                       THEN [r.calls[c] EXCEPT !.late = TRUE]
                       ELSE r.calls[c]]
  /\ UNCHANGED <<socket, readyState, listeners, isConnected, messageIdCounter,
                 reconnectTimer, reconnectAttempts, bridge, wire>>
  /\ UNCHANGED <<ensure, relayReady, outsideBridge>>

\* the socket closes (failed handshake, peer close, completion of close());
\* ws.on('close') runs when the socket still has its listeners.  A ready
\* relay neither refuses a handshake nor drops a peer.
WsClose(s) ==
  /\ readyState[s] \in {"CONNECTING", "OPEN", "CLOSING"}
  /\ readyState[s] \in {"CONNECTING", "OPEN"} => ~relayReady
  /\ readyState' = [readyState EXCEPT ![s] = "CLOSED"]
  /\ IF listeners[s]
     THEN /\ isConnected' = FALSE
          /\ socket' = 0
          /\ timers' = timers \ MapValues(pendingCDPRequests)
          /\ calls' = RejectAll(calls, pendingCDPRequests, "disconnected")
          /\ pendingCDPRequests' = EmptyMap
          /\ reconnectTimer' = IF MayReconnect(reconnectAttempts) THEN TRUE
                                ELSE reconnectTimer
     ELSE UNCHANGED <<isConnected, socket, timers, calls, pendingCDPRequests,
                      reconnectTimer>>
  /\ UNCHANGED <<listeners, messageIdCounter, reconnectAttempts, bridge, wire>>
  /\ UNCHANGED <<ensure, relayReady, outsideBridge>>

\* export function stopNativeBridge()
StopNativeBridge ==
  /\ bridge = "started"
  /\ bridge' = "stopped"
  /\ reconnectTimer' = StopTimer(reconnectTimer)
  /\ readyState' = IF socket # 0 THEN [readyState EXCEPT ![socket] = CloseCalled(@)]
                                 ELSE readyState
  /\ listeners' = Detach(listeners, socket)
  /\ socket' = 0
  /\ isConnected' = FALSE
  /\ timers' = timers \ MapValues(pendingCDPRequests)
  /\ calls' = RejectAll(calls, pendingCDPRequests, "stopped")
  /\ pendingCDPRequests' = EmptyMap
  /\ UNCHANGED <<messageIdCounter, reconnectAttempts, wire>>
  /\ UNCHANGED <<ensure, relayReady, outsideBridge>>

\* export async function sendCDPCommand(method, params), up to its first
\* suspension: dispatch at once when connected, else start reconnect(5000)
SendCDPCommand(c) ==
  /\ bridge # "init"
  /\ calls[c].pc = "idle"
  /\ \A d \in Calls : d < c => calls[d].pc # "idle"
  /\ IF isNativeHostConnected
     THEN \E throws \in BOOLEAN : Dispatch(c, throws)
     ELSE /\ ReconnectBegin
          /\ calls' = [calls EXCEPT ![c].pc = "connectWait"]
          /\ UNCHANGED <<messageIdCounter, pendingCDPRequests, timers, wire>>
  /\ UNCHANGED bridge
  /\ UNCHANGED <<ensure, relayReady, outsideBridge>>

\* reconnect(5000) returns true to sendCDPCommand, which goes on to dispatch
ReconnectReturnsTrue(c) ==
  /\ calls[c].pc = "connectWait"
  /\ isNativeHostConnected
  /\ \E throws \in BOOLEAN : Dispatch(c, throws)
  /\ UNCHANGED bridge
  /\ UNCHANGED <<ensure, relayReady, outsideBridge>>

\* mutant: the request ID is taken before the connection check
NotConnectedAfterId(cs, c) ==
  [Settle(cs, c, "not_connected", "none") EXCEPT ![c].id = messageIdCounter]

\* throw new Error('Native host not connected. ...') in sendCDPCommand
NotConnected(cs, c) == Settle(cs, c, "not_connected", "none")

\* reconnect(5000) returns false after its window: sendCDPCommand throws
ReconnectReturnsFalse(c) ==
  /\ calls[c].pc = "connectWait"
  /\ ~isNativeHostConnected
  /\ calls' = NotConnected(calls, c)
  /\ UNCHANGED <<socket, readyState, listeners, isConnected, messageIdCounter,
                 pendingCDPRequests, timers, reconnectTimer, reconnectAttempts,
                 bridge, wire>>
  /\ UNCHANGED <<ensure, relayReady, outsideBridge>>

\* reconnect(3000) of the catch block returns (true or false) and its
\* then-callback retries socket.send; a null or connecting socket throws
RetryAfterReconnect(c) ==
  /\ calls[c].pc = "retryWait"
  /\ \E throws \in BOOLEAN :
       IF isNativeHostConnected /\ ~throws
       THEN /\ wire' = SocketSend(wire, [id |-> calls[c].id, sock |-> socket, retry |-> TRUE])
            /\ calls' = [calls EXCEPT ![c].pc = "retried"]
       ELSE /\ (throws \/ ~isNativeHostConnected)
            /\ calls' = Settle(calls, c, "send_failed", "none")
            /\ wire' = wire
  /\ UNCHANGED <<socket, readyState, listeners, isConnected, messageIdCounter,
                 pendingCDPRequests, timers, reconnectTimer, reconnectAttempts,
                 bridge>>
  /\ UNCHANGED <<ensure, relayReady, outsideBridge>>

\* the deadline timer of call c fires (CDP_TIMEOUT)
DeadlineFires(c) ==
  /\ c \in timers
  /\ timers' = timers \ {c}
  /\ pendingCDPRequests' = MapDelete(pendingCDPRequests, calls[c].id)
  /\ calls' = Settle(calls, c, "timeout", "none")
  /\ UNCHANGED <<socket, readyState, listeners, isConnected, messageIdCounter,
                 reconnectTimer, reconnectAttempts, bridge, wire>>
  /\ UNCHANGED <<ensure, relayReady, outsideBridge>>

\* mutant: an attempt in flight counts as connected
EnsureResultOptimistic == socket # 0

\* return isNativeHostConnected() / return true in ensureConnected
EnsureResult == isNativeHostConnected

\* export async function ensureConnected(timeoutMs), up to its first
\* suspension: return true at once when connected, else scheduleConnect(true)
EnsureConnected ==
  /\ bridge # "init"
  /\ ensure # "polling"
  /\ IF isNativeHostConnected
     THEN ensure' = "true" /\ UNCHANGED reconnectTimer
     ELSE ensure' = "polling" /\ reconnectTimer' = TRUE
  /\ UNCHANGED <<socket, readyState, listeners, isConnected, messageIdCounter,
                 pendingCDPRequests, timers, reconnectAttempts, bridge, calls, wire>>
  /\ UNCHANGED <<relayReady, outsideBridge>>

\* ensureConnected's polling loop returns: true as soon as a poll finds the
\* socket open, else isNativeHostConnected() once the window has elapsed
EnsureReturns ==
  /\ ensure = "polling"
  /\ ensure' = IF EnsureResult THEN "true" ELSE "false"
  /\ UNCHANGED <<socket, readyState, listeners, isConnected, messageIdCounter,
                 pendingCDPRequests, timers, reconnectTimer, reconnectAttempts,
                 bridge, calls, wire>>
  /\ UNCHANGED <<relayReady, outsideBridge>>

\* environment: the relay starts or stops listening, or its slot is taken/freed
RelayChanges ==
  /\ relayReady' = ~relayReady
  /\ UNCHANGED <<socket, readyState, listeners, isConnected, messageIdCounter,
                 pendingCDPRequests, timers, reconnectTimer, reconnectAttempts,
                 bridge, calls, wire, ensure>>
  /\ UNCHANGED outsideBridge

NextBridge ==
  \/ StartNativeBridge
  \/ ReconnectTimerFires
  \/ \E s \in Sockets : WsOpen(s)
  \/ \E s \in Sockets : \E message \in Messages : WsMessage(s, message)
  \/ \E s \in Sockets : WsClose(s)
  \/ StopNativeBridge
  \/ \E c \in Calls : SendCDPCommand(c)
  \/ \E c \in Calls : ReconnectReturnsTrue(c)
  \/ \E c \in Calls : ReconnectReturnsFalse(c)
  \/ \E c \in Calls : RetryAfterReconnect(c)
  \/ \E c \in Calls : DeadlineFires(c)

SpecBridge == InitBridge /\ [][NextBridge]_vars

\* timers fire and polling loops return: setTimeout callbacks always run
FairBridge ==
  \A c \in Calls :
    /\ WF_vars(DeadlineFires(c))
    /\ WF_vars(ReconnectReturnsTrue(c) \/ ReconnectReturnsFalse(c))
    /\ WF_vars(RetryAfterReconnect(c))

SpecBridgeFair == SpecBridge /\ FairBridge

(***************************************************************************)
(* Bridge client: the connection machine with ensureConnected and a relay  *)
(* that comes and goes, interleaved with the first MaxDispatches calls     *)
(***************************************************************************)
Dispatches == {c \in Calls : c <= MaxDispatches}

InitConnect ==
  /\ BridgeLoaded
  /\ relayReady \in BOOLEAN
  /\ CodecLoaded
  /\ HostLoaded
  /\ ClockLoaded
  /\ DiagLoaded
  /\ ToolLoaded
  /\ RestartLoaded /\ ExtensionLoaded

NextConnect ==
  \/ EnsureConnected
  \/ EnsureReturns
  \/ RelayChanges
  \/ StartNativeBridge
  \/ ReconnectTimerFires
  \/ \E s \in Sockets : WsOpen(s)
  \/ \E s \in Sockets : \E message \in Messages : WsMessage(s, message)
  \/ \E s \in Sockets : WsClose(s)
  \/ StopNativeBridge
  \/ \E c \in Dispatches : SendCDPCommand(c)
  \/ \E c \in Dispatches : ReconnectReturnsTrue(c)
  \/ \E c \in Dispatches : ReconnectReturnsFalse(c)
  \/ \E c \in Dispatches : RetryAfterReconnect(c)
  \/ \E c \in Dispatches : DeadlineFires(c)

SpecConnect == InitConnect /\ [][NextConnect]_vars

\* the reconnect timer fires, a handshake with the relay completes, and the
\* polling loop of ensureConnected returns
FairConnect ==
  /\ WF_vars(ReconnectTimerFires)
  /\ \A s \in Sockets : WF_vars(WsOpen(s))
  /\ WF_vars(EnsureReturns)

SpecConnectLive == SpecConnect /\ FairBridge /\ FairConnect

(***************************************************************************)
(* Native host: the relay's WebSocket server                               *)
(***************************************************************************)
\* the envelopes the extension sends: keep-alive probes and command responses
Forwards == [n : 1..MaxForwards, type : {"keep-alive", "cdp_response"}]

FreshPeer == Cardinality({p \in Peers : peerState[p] # "UNBORN"}) + 1

\* mutant: always replace (close the old peer, adopt the new one)
AdoptsAlways(active, states) == TRUE

\* the connection handler adopts the newcomer unless
\* activeClient && activeClient.readyState === WebSocket.OPEN
Adopts(active, states) == ~(active # 0 /\ states[active] = "OPEN")

\* wss.on('connection', (client) => ...) for the next peer
Connection ==
  /\ wss = "listening"
  /\ FreshPeer \in Peers
  /\ LET client == FreshPeer IN
     IF policy = "reject" /\ ~Adopts(activeClient, peerState)
     THEN \* client.close(); return
          /\ peerState' = [peerState EXCEPT ![client] = "CLOSING"]
          /\ UNCHANGED <<activeClient, peerHandlers, replaced, draining>>
     ELSE \* if (activeClient) activeClient.close(); activeClient = client
          /\ peerState' = [p \in Peers |->
                             IF p = client THEN "OPEN"
                             ELSE IF p = activeClient THEN CloseCalled(peerState[p])
                             ELSE peerState[p]]
          /\ activeClient' = client
          /\ peerHandlers' = [peerHandlers EXCEPT ![client] = TRUE]
          /\ replaced' = IF activeClient # 0 THEN replaced \cup {activeClient} ELSE replaced
          /\ draining' = IF activeClient # 0 /\ peerState[activeClient] = "OPEN"
                         THEN draining \cup {activeClient} ELSE draining
  /\ UNCHANGED <<inbox, arrivals, wss, wssError, delivered, policy, downstream>>
  /\ UNCHANGED outsideHost

\* the peer or the network starts closing the connection: readyState is
\* CLOSING before the 'close' event is emitted
PeerClosing(p) ==
  /\ wss # "exited"
  /\ peerState[p] = "OPEN"
  /\ peerState' = [peerState EXCEPT ![p] = "CLOSING"]
  /\ UNCHANGED <<activeClient, peerHandlers, replaced, inbox, arrivals, wss, wssError,
                 delivered>>
  /\ UNCHANGED relayVars
  /\ UNCHANGED outsideHost

\* mutant: the close handler clears the reference whoever closed
AfterCloseOfAny(active, client) == 0

\* client.on('close'): if (activeClient === client) activeClient = null
AfterClose(active, client) == IF active = client THEN 0 ELSE active

\* the 'close' event of peer p; the handler exists on adopted peers only
PeerClose(p) ==
  /\ wss # "exited"
  /\ peerState[p] \in {"OPEN", "CLOSING"}
  /\ peerState' = [peerState EXCEPT ![p] = "CLOSED"]
  /\ activeClient' = IF peerHandlers[p] THEN AfterClose(activeClient, p) ELSE activeClient
  /\ UNCHANGED <<peerHandlers, replaced, inbox, arrivals, wss, wssError, delivered>>
  /\ UNCHANGED relayVars
  /\ UNCHANGED outsideHost

\* mutant: the open-state check is missing
SendToAnyActive(boxes, active, states, message) ==
  IF active = 0 THEN boxes
  ELSE [boxes EXCEPT ![active] = Append(@, message)]

\* function sendToMCPServer(message): the peers' inboxes afterwards
sendToMCPServer(boxes, active, states, message) ==
  IF active = 0 \/ states[active] # "OPEN" THEN boxes
  ELSE [boxes EXCEPT ![active] = Append(@, message)]

\* function handleExtensionMessage(message), called by the stdin reader
handleExtensionMessage(message) ==
  /\ wss # "exited"
  /\ arrivals < MaxForwards
  /\ message.n = arrivals + 1
  /\ arrivals' = arrivals + 1
  /\ inbox' = IF message.type = "keep-alive" THEN inbox
              ELSE sendToMCPServer(inbox, activeClient, peerState, message)
  /\ UNCHANGED <<activeClient, peerState, peerHandlers, replaced, wss, wssError,
                 delivered>>
  /\ UNCHANGED relayVars
  /\ UNCHANGED outsideHost

\* the server is bound: connections can arrive
Listening ==
  /\ wss = "binding"
  /\ wss' = "listening"
  /\ UNCHANGED <<activeClient, peerState, peerHandlers, replaced, inbox, arrivals,
                 wssError, delivered>>
  /\ UNCHANGED relayVars
  /\ UNCHANGED outsideHost

ExitsOnNothing(code) == FALSE
\* if (error.code === 'EADDRINUSE') process.exit(1)
ExitsOn(code) == code = "EADDRINUSE"

\* wss.on('error'): the server could not be bound
ServerError(code) ==
  /\ wss = "binding"
  /\ wssError' = code
  /\ wss' = IF ExitsOn(code) THEN "exited" ELSE "failed"
  /\ UNCHANGED <<activeClient, peerState, peerHandlers, replaced, inbox, arrivals,
                 delivered>>
  /\ UNCHANGED relayVars
  /\ UNCHANGED outsideHost

\* client.on('message') of peer p: sendToExtension(message)
PeerMessage(p) ==
  /\ wss # "exited"
  /\ peerHandlers[p]
  /\ peerState[p] = "OPEN" \/ (peerState[p] = "CLOSING" /\ p \in draining)
  /\ Len(downstream) < MaxRequests
  /\ downstream' = Append(downstream, p)
  /\ UNCHANGED <<activeClient, peerState, peerHandlers, replaced, inbox, arrivals, wss,
                 wssError, delivered, policy, draining>>
  /\ UNCHANGED outsideHost

InitHost ==
  /\ HostLoaded /\ CodecLoaded /\ BridgeLoaded /\ relayReady = FALSE /\ ClockLoaded
  /\ DiagLoaded
  /\ ToolLoaded
  /\ RestartLoaded /\ ExtensionLoaded

NextHost ==
  \/ Connection
  \/ \E p \in Peers : PeerClosing(p)
  \/ \E p \in Peers : PeerClose(p)
  \/ \E message \in Forwards : handleExtensionMessage(message)
  \/ Listening
  \/ \E code \in {"EADDRINUSE", "EACCES"} : ServerError(code)

SpecHost == InitHost /\ [][NextHost]_vars

\* the relay of either copy, with the messages its peers send
InitRelay ==
  /\ HostState /\ policy \in {"reject", "replace"}
  /\ CodecLoaded /\ BridgeLoaded /\ relayReady = FALSE /\ ClockLoaded
  /\ DiagLoaded
  /\ ToolLoaded
  /\ RestartLoaded /\ ExtensionLoaded

NextRelay ==
  \/ NextHost
  \/ \E p \in Peers : PeerMessage(p)

SpecRelay == InitRelay /\ [][NextRelay]_vars

(***************************************************************************)
(* Relay and bridge client together: what the extension writes reaches the *)
(* bridge client through the active peer's socket                          *)
(***************************************************************************)
\* envelopes of the extension: liveness probes, status reports, unknown
\* types and command responses; id 0 stands for an envelope without an id
ProbeTypes == {"keep-alive", "keep-alive-ack", "status", "unknown"}
ProbeForwards ==
  [n : 1..MaxForwards, type : ProbeTypes \cup {"cdp_response"}, id : 0..MaxDispatches,
   error : {FALSE}, result : {"r1"}]

\* ws.on('message') of socket s with the next message the relay wrote to peer p
RelayDelivers(p, s) ==
  /\ readyState[s] = "OPEN" /\ listeners[s]
  /\ delivered[p] < Len(inbox[p])
  /\ LET message == inbox[p][delivered[p] + 1]
         r == handleNativeMessage(message)
     IN /\ timers' = r.timers
        /\ pendingCDPRequests' = r.map
        /\ calls' = r.calls
  /\ delivered' = [delivered EXCEPT ![p] = @ + 1]
  /\ UNCHANGED <<socket, readyState, listeners, isConnected, messageIdCounter,
                 reconnectTimer, reconnectAttempts, bridge, wire, ensure, relayReady>>
  /\ UNCHANGED <<activeClient, peerState, peerHandlers, replaced, inbox, arrivals, wss,
                 wssError, relayVars>>
  /\ UNCHANGED <<codecVars, clockVars, diagVars, toolVars, restartVars, extVars>>

InitProbe == InitHost

NextProbe ==
  \/ Listening
  \/ Connection
  \/ \E message \in ProbeForwards : handleExtensionMessage(message)
  \/ StartNativeBridge
  \/ ReconnectTimerFires
  \/ \E s \in Sockets : WsOpen(s)
  \/ \E c \in Dispatches : SendCDPCommand(c)
  \/ \E c \in Dispatches : ReconnectReturnsTrue(c)
  \/ \E p \in Peers, s \in Sockets : RelayDelivers(p, s)

SpecProbe == InitProbe /\ [][NextProbe]_vars



(***************************************************************************)
(* The two deadline timers of one request: the bridge client's             *)
(* (CDP_TIMEOUT) and the extension's (sendCDPCommand in background.js)     *)
(***************************************************************************)
CDP_TIMEOUT == 10000            \* const CDP_TIMEOUT = 10000
EXTENSION_CDP_TIMEOUT == 5000   \* setTimeout(..., 5000), src/extension/background.js
BACKGROUND_CDP_TIMEOUT == 12000 \* setTimeout(..., 12000), src/unnamed/part_000
Tick == 1000

\* the extension that is installed: either copy of the background script
InitClock ==
  /\ now = 0 /\ caller = "idle" /\ sentAt = 0
  /\ ext = "idle" /\ extStart = 0 /\ response = "none"
  /\ downstreamTimeout \in {EXTENSION_CDP_TIMEOUT, BACKGROUND_CDP_TIMEOUT}
  /\ CodecLoaded /\ BridgeLoaded /\ relayReady = FALSE /\ HostLoaded
  /\ DiagLoaded
  /\ ToolLoaded
  /\ RestartLoaded /\ ExtensionLoaded

\* time passes; an armed timer fires when it is due, before time goes on
Advance ==
  /\ now < MaxClock
  /\ caller = "pending" => now + Tick <= sentAt + CDP_TIMEOUT
  /\ ext = "running" => now + Tick <= extStart + downstreamTimeout
  /\ now' = now + Tick
  /\ UNCHANGED <<downstreamTimeout, caller, sentAt, ext, extStart, response>>
  /\ UNCHANGED outsideClock

\* bridge client, sendCDPCommand: setTimeout(..., CDP_TIMEOUT), store, send
ClockDispatch ==
  /\ caller = "idle"
  /\ caller' = "pending" /\ sentAt' = now
  /\ UNCHANGED <<now, downstreamTimeout, ext, extStart, response>>
  /\ UNCHANGED outsideClock

\* extension, handleNativeMessage(cdp_request): sendCDPCommand arms its
\* timer and calls chrome.debugger.sendCommand
ExtensionReceives ==
  /\ caller # "idle" /\ ext = "idle"
  /\ ext' = "running" /\ extStart' = now
  /\ UNCHANGED <<now, downstreamTimeout, caller, sentAt, response>>
  /\ UNCHANGED outsideClock

\* extension: the debugger calls back before the timer fired; the result or
\* the command's error is sent as cdp_response
CommandCompletes(kind) ==
  /\ ext = "running"
  /\ ext' = "answered" /\ response' = kind
  /\ UNCHANGED <<now, downstreamTimeout, caller, sentAt, extStart>>
  /\ UNCHANGED outsideClock

\* extension: the timer fires, sendCDPCommand rejects with "timed out after
\* ..." and handleNativeMessage sends that error as cdp_response
ExtensionTimeout ==
  /\ ext = "running" /\ now >= extStart + downstreamTimeout
  /\ ext' = "answered" /\ response' = "timeout_error"
  /\ UNCHANGED <<now, downstreamTimeout, caller, sentAt, extStart>>
  /\ UNCHANGED outsideClock

\* bridge client: the deadline timer fires, the entry is deleted, reject
CallerDeadline ==
  /\ caller = "pending" /\ now >= sentAt + CDP_TIMEOUT
  /\ caller' = "timeout"
  /\ UNCHANGED <<now, downstreamTimeout, sentAt, ext, extStart, response>>
  /\ UNCHANGED outsideClock

\* bridge client, handleNativeMessage: the response settles the call when
\* its entry is still in the table, else it is logged and dropped
ResponseArrives ==
  /\ response # "none"
  /\ response' = "none"
  /\ caller' = IF caller # "pending" THEN caller
               ELSE CASE response = "result" -> "resolved"
                      [] response = "error" -> "remote_error"
                      [] OTHER -> "downstream_timeout"
  /\ UNCHANGED <<now, downstreamTimeout, sentAt, ext, extStart>>
  /\ UNCHANGED outsideClock

NextClock ==
  \/ Advance
  \/ ClockDispatch
  \/ ExtensionReceives
  \/ \E kind \in {"result", "error"} : CommandCompletes(kind)
  \/ ExtensionTimeout
  \/ CallerDeadline
  \/ ResponseArrives

SpecClock == InitClock /\ [][NextClock]_vars

(***************************************************************************)
(* diagnose_layout: the rule engine of the MCP server                      *)
(* Lengths of the box model are in half pixels, so that Math.round acts;   *)
(* bounds and the viewport are in pixels.                                  *)
(***************************************************************************)
Min(a, b) == IF a <= b THEN a ELSE b
Max(a, b) == IF a >= b THEN a ELSE b
Abs(a) == IF a < 0 THEN 0 - a ELSE a
\* Math.round of h half pixels: halves round towards plus infinity
Round(h) == (h + 1) \div 2

\* Map.prototype.get
Get(styleMap, key) == IF key \in DOMAIN styleMap THEN styleMap[key] ELSE Undefined
\* ToBoolean of a string or undefined
Truthy(v) == v \notin {Undefined, ""}

\* a JavaScript number: every comparison with NaN is false
Number(n) == [nan |-> FALSE, value |-> n]
NaN == [nan |-> TRUE, value |-> 0]
isNaN(x) == x.nan
StrictEquals(x, n) == ~x.nan /\ x.value = n
LessThan(x, n) == ~x.nan /\ x.value < n
\* parseFloat on the opacity values drawn here, in hundredths
parseFloat(s) ==
  CASE s = "0" -> Number(0)
    [] s = "0.05" -> Number(5)
    [] s = "1" -> Number(100)
    [] OTHER -> NaN
\* parseInt(s, 10) on the z-index values drawn here
parseInt(s) ==
  CASE s = "-1" -> Number(-1)
    [] s = "0" -> Number(0)
    [] s = "5" -> Number(5)
    [] s = "100" -> Number(100)
    [] OTHER -> NaN
\* the outcome of evaluating a condition: it threw, or it has a value
Bool(v) == [threw |-> FALSE, value |-> v]
\* a || b, a && b and !a: b is evaluated only when a does not decide
Or(a, b) == IF a.threw \/ a.value THEN a ELSE b
And(a, b) == IF a.threw \/ ~a.value THEN a ELSE b
Not(a) == [a EXCEPT !.value = ~a.value]
\* String.prototype.includes on the values drawn here; a TypeError when the
\* receiver is undefined
Contains(s, sub) ==
  CASE sub = "translateX(-50%)" -> s \in {"translateX(-50%)", "translateX(-50%) translateY(-50%)"}
    [] sub = "translateY(-50%)" -> s \in {"translateY(-50%)", "translateX(-50%) translateY(-50%)"}
    [] sub = "rgba" -> s \in {"rgba(0, 0, 0, 0.5)"}
    [] sub = "hsla" -> s \in {"hsla(0, 0%, 0%, 0.5)"}
    [] OTHER -> FALSE
Includes(s, sub) == [threw |-> s = Undefined, value |-> Contains(s, sub)]

Issue(type, severity) == [type |-> type, severity |-> severity, pixels |-> Undefined]
Measured(type, severity, pixels) == [type |-> type, severity |-> severity, pixels |-> pixels]
\* issues.push(...) under a condition
PushIf(cond, issue) == IF cond THEN <<issue>> ELSE <<>>
\* an exception leaving the rule family in place of its list
TypeError == [type |-> "TypeError", severity |-> "thrown", pixels |-> Undefined]
Thrown(issues) == \E i \in 1..Len(issues) : issues[i] = TypeError
\* issues.push(...) under a condition whose evaluation may throw
PushWhen(cond, issue) ==
  IF cond.threw THEN <<TypeError>> ELSE IF cond.value THEN <<issue>> ELSE <<>>

extractBounds(boxModel) ==
  [left |-> Round(Min(boxModel.content[1], boxModel.content[7])),
   top |-> Round(Min(boxModel.content[2], boxModel.content[4])),
   right |-> Round(Max(boxModel.content[3], boxModel.content[5])),
   bottom |-> Round(Max(boxModel.content[6], boxModel.content[8])),
   width |-> Round(boxModel.width),
   height |-> Round(boxModel.height)]

THRESHOLD == 2

checkOffscreenTouching(bounds, viewport) ==
  PushIf(bounds.right > viewport.clientWidth + THRESHOLD,
         Measured("offscreen-right", "high", bounds.right - viewport.clientWidth))
  \o PushIf(bounds.bottom > viewport.clientHeight + THRESHOLD,
            Measured("offscreen-bottom", "medium", bounds.bottom - viewport.clientHeight))
  \o PushIf(bounds.left < 0 - THRESHOLD,
            Measured("offscreen-left", "high", Abs(bounds.left)))
  \o PushIf(bounds.top < 0 - THRESHOLD,
            Measured("offscreen-top", "high", Abs(bounds.top)))
  \o PushIf(\/ bounds.right <= 0 \/ bounds.left >= viewport.clientWidth
            \/ bounds.bottom <= 0 \/ bounds.top >= viewport.clientHeight,
            Issue("completely-offscreen", "high"))
checkOffscreenNoTolerance(bounds, viewport) ==
  PushIf(bounds.right > viewport.clientWidth + THRESHOLD,
         Measured("offscreen-right", "high", bounds.right - viewport.clientWidth))
  \o PushIf(bounds.bottom > viewport.clientHeight + THRESHOLD,
            Measured("offscreen-bottom", "medium", bounds.bottom - viewport.clientHeight))
  \o PushIf(bounds.left < 0,
            Measured("offscreen-left", "high", Abs(bounds.left)))
  \o PushIf(bounds.top < 0 - THRESHOLD,
            Measured("offscreen-top", "high", Abs(bounds.top)))
  \o PushIf(\/ bounds.right < 0 \/ bounds.left > viewport.clientWidth
            \/ bounds.bottom < 0 \/ bounds.top > viewport.clientHeight,
            Issue("completely-offscreen", "high"))
checkOffscreen(bounds, viewport) ==
  PushIf(bounds.right > viewport.clientWidth + THRESHOLD,
         Measured("offscreen-right", "high", bounds.right - viewport.clientWidth))
  \o PushIf(bounds.bottom > viewport.clientHeight + THRESHOLD,
            Measured("offscreen-bottom", "medium", bounds.bottom - viewport.clientHeight))
  \o PushIf(bounds.left < 0 - THRESHOLD,
            Measured("offscreen-left", "high", Abs(bounds.left)))
  \o PushIf(bounds.top < 0 - THRESHOLD,
            Measured("offscreen-top", "high", Abs(bounds.top)))
  \o PushIf(\/ bounds.right < 0 \/ bounds.left > viewport.clientWidth
            \/ bounds.bottom < 0 \/ bounds.top > viewport.clientHeight,
            Issue("completely-offscreen", "high"))

OpacityIssue(opacity) ==
  IF opacity = Undefined THEN <<>>
  ELSE IF StrictEquals(parseFloat(opacity), 0) THEN <<Issue("hidden-opacity", "high")>>
  ELSE IF LessThan(parseFloat(opacity), 10) THEN <<Issue("low-opacity", "medium")>>
  ELSE <<>>

checkVisibilityNotBlock(styleMap) ==
  PushIf(Get(styleMap, "display") # "block", Issue("hidden-display", "high"))
  \o PushIf(Get(styleMap, "visibility") = "hidden", Issue("hidden-visibility", "high"))
  \o PushIf(Get(styleMap, "visibility") = "collapse", Issue("hidden-collapse", "high"))
  \o OpacityIssue(Get(styleMap, "opacity"))
  \o PushIf(Get(styleMap, "clip-path") \in {"inset(100%)", "circle(0)", "polygon(0 0)"},
            Issue("hidden-clip-path", "medium"))
  \o PushIf(Get(styleMap, "width") = "0px" /\ Get(styleMap, "height") = "0px",
            Issue("zero-dimensions", "medium"))
checkVisibility(styleMap) ==
  PushIf(Get(styleMap, "display") = "none", Issue("hidden-display", "high"))
  \o PushIf(Get(styleMap, "visibility") = "hidden", Issue("hidden-visibility", "high"))
  \o PushIf(Get(styleMap, "visibility") = "collapse", Issue("hidden-collapse", "high"))
  \o OpacityIssue(Get(styleMap, "opacity"))
  \o PushIf(Get(styleMap, "clip-path") \in {"inset(100%)", "circle(0)", "polygon(0 0)"},
            Issue("hidden-clip-path", "medium"))
  \o PushIf(Get(styleMap, "width") = "0px" /\ Get(styleMap, "height") = "0px",
            Issue("zero-dimensions", "medium"))

\* const zIndexValue = zIndex ? parseInt(zIndex, 10) : NaN
ZIndexValue(zIndex) == IF Truthy(zIndex) THEN parseInt(zIndex) ELSE NaN

ZIndexIssueInclusive(position, zIndex) ==
  IF position \notin {"fixed", "absolute", "relative"} THEN <<>>
  ELSE IF zIndex = "auto" \/ isNaN(ZIndexValue(zIndex))
       THEN <<Issue("modal-no-zindex", "medium")>>
  ELSE IF ~LessThan(ZIndexValue(zIndex), 101) THEN <<>>
  ELSE <<Issue("modal-low-zindex", "low")>>
ZIndexIssue(position, zIndex) ==
  IF position \notin {"fixed", "absolute", "relative"} THEN <<>>
  ELSE IF zIndex = "auto" \/ isNaN(ZIndexValue(zIndex))
       THEN <<Issue("modal-no-zindex", "medium")>>
  ELSE IF LessThan(ZIndexValue(zIndex), 100) THEN <<Issue("modal-low-zindex", "low")>>
  ELSE <<>>

CenteredUnguarded(edge, transform, translate) ==
  Or(Bool(edge = "50%"), Includes(transform, translate))
Centered(edge, transform, translate) ==
  Or(Bool(edge = "50%"), And(Bool(Truthy(transform)), Includes(transform, translate)))

\* both flags are computed before either is used
CenterIssue(styleMap) ==
  IF Get(styleMap, "position") # "fixed" THEN <<>>
  ELSE The({ IF h.threw \/ v.threw THEN <<TypeError>>
             ELSE PushWhen(And(And(Not(h), Not(v)),
                               Bool(/\ Get(styleMap, "left") \notin {"0px", "0"}
                                    /\ Get(styleMap, "right") \notin {"0px", "0"})),
                           Issue("modal-not-centered", "low")) :
             h \in {Centered(Get(styleMap, "left"), Get(styleMap, "transform"),
                              "translateX(-50%)")},
             v \in {Centered(Get(styleMap, "top"), Get(styleMap, "transform"),
                              "translateY(-50%)")} })

StackingIssue(styleMap) ==
  PushIf(\/ Get(styleMap, "isolation") = "isolate"
         \/ Truthy(Get(styleMap, "mix-blend-mode")) /\ Get(styleMap, "mix-blend-mode") # "normal"
         \/ Truthy(Get(styleMap, "filter")) /\ Get(styleMap, "filter") # "none"
         \/ Truthy(Get(styleMap, "will-change")) /\ Get(styleMap, "will-change") # "auto",
         Issue("stacking-context", "low"))

BackdropIssue(styleMap, bounds, viewport) ==
  PushWhen(And(Bool(/\ Truthy(Get(styleMap, "background-color"))
                    /\ Get(styleMap, "position") = "fixed"
                    /\ 10 * bounds.width >= 9 * viewport.clientWidth
                    /\ 10 * bounds.height >= 9 * viewport.clientHeight),
               And(Not(Includes(Get(styleMap, "background-color"), "rgba")),
                   And(Not(Includes(Get(styleMap, "background-color"), "hsla")),
                       Bool(Get(styleMap, "background-color") # "transparent")))),
           Issue("backdrop-opaque", "low"))

checkModalIssues(styleMap, bounds, viewport) ==
  ZIndexIssue(Get(styleMap, "position"), Get(styleMap, "z-index"))
  \o CenterIssue(styleMap)
  \o StackingIssue(styleMap)
  \o BackdropIssue(styleMap, bounds, viewport)

Overflows(styleMap) ==
  {Get(styleMap, "overflow"), Get(styleMap, "overflow-x"), Get(styleMap, "overflow-y")}

checkOverflow(styleMap) ==
  PushIf("hidden" \in Overflows(styleMap), Issue("overflow-hidden", "low"))
  \o PushIf(Overflows(styleMap) \cap {"scroll", "auto"} # {}, Issue("scroll-container", "low"))

severityOrder == [high |-> 0, medium |-> 1, low |-> 2]
\* (a, b) => severityOrder[a.severity] - severityOrder[b.severity]
Compare(a, b) == severityOrder[a.severity] - severityOrder[b.severity]

\* Array.prototype.sort is stable: an element goes behind every element
\* that does not compare greater than it
InsertFirst(sorted, x) ==
  The({ SubSeq(sorted, 1, k) \o <<x>> \o SubSeq(sorted, k + 1, Len(sorted)) :
        k \in {Cardinality({i \in 1..Len(sorted) : Compare(sorted[i], x) < 0})} })
Insert(sorted, x) ==
  The({ SubSeq(sorted, 1, k) \o <<x>> \o SubSeq(sorted, k + 1, Len(sorted)) :
        k \in {Cardinality({i \in 1..Len(sorted) : Compare(sorted[i], x) <= 0})} })

RECURSIVE Sort(_)
Sort(issues) ==
  IF issues = <<>> THEN <<>>
  ELSE Insert(Sort(SubSeq(issues, 1, Len(issues) - 1)), issues[Len(issues)])

\* step 7 of the handler: the four families in the order they are run
AllIssues(styleMap, bounds, viewport) ==
  checkVisibility(styleMap)
  \o checkOffscreen(bounds, viewport)
  \o checkModalIssues(styleMap, bounds, viewport)
  \o checkOverflow(styleMap)

CountOf(issues, severity) ==
  Cardinality({i \in 1..Len(issues) : issues[i].severity = severity})

NoIssues == <<Issue("none", "low")>>

ResultAsIs(allIssues) ==
  [status |-> "ok",
   issues |-> allIssues,
   confidence |-> IF Len(allIssues) > 0 THEN 95 ELSE 85,
   summary |-> [totalIssues |-> Len(allIssues),
                highSeverity |-> CountOf(allIssues, "high"),
                mediumSeverity |-> CountOf(allIssues, "medium"),
                lowSeverity |-> CountOf(allIssues, "low")]]
\* steps 8 and 9 of the handler
Result(allIssues) ==
  [status |-> "ok",
   issues |-> IF Len(allIssues) > 0 THEN allIssues ELSE NoIssues,
   confidence |-> IF Len(allIssues) > 0 THEN 95 ELSE 85,
   summary |-> [totalIssues |-> Len(allIssues),
                highSeverity |-> CountOf(allIssues, "high"),
                mediumSeverity |-> CountOf(allIssues, "medium"),
                lowSeverity |-> CountOf(allIssues, "low")]]

\* the computed-style values a snapshot is drawn from
StyleValues ==
  [display |-> {"none", "block"},
   visibility |-> {"hidden", "collapse", "visible"},
   opacity |-> {"0", "0.05", "1"},
   clipPath |-> {"inset(100%)", "none"},
   width |-> {"0px", "10px"},
   height |-> {"0px", "10px"},
   position |-> {"fixed", "absolute", "relative", "static"},
   zIndex |-> {"auto", "-1", "0", "5", "100"},
   left |-> {"50%", "0px", "10px"},
   top |-> {"50%", "10px"},
   transform |-> {"none", "translateX(-50%)"},
   right |-> {"0px", "10px"},
   isolation |-> {"isolate", "auto"},
   mixBlendMode |-> {"normal", "multiply"},
   filter |-> {"none", "blur(1px)"},
   willChange |-> {"auto", "transform"},
   backgroundColor |-> {"rgba(0, 0, 0, 0.5)", "transparent", "rgb(0, 0, 0)"},
   overflow |-> {"hidden", "scroll", "visible"},
   overflowX |-> {"hidden", "auto"},
   overflowY |-> {"hidden", "scroll"}]

\* the CSS name of a property
CssName ==
  [display |-> "display", visibility |-> "visibility", opacity |-> "opacity",
   clipPath |-> "clip-path", width |-> "width", height |-> "height",
   position |-> "position", zIndex |-> "z-index", left |-> "left", top |-> "top",
   transform |-> "transform", right |-> "right", isolation |-> "isolation",
   mixBlendMode |-> "mix-blend-mode", filter |-> "filter",
   willChange |-> "will-change", backgroundColor |-> "background-color",
   overflow |-> "overflow", overflowX |-> "overflow-x", overflowY |-> "overflow-y"]

\* new Map(computedStyle.map((prop) => [prop.name, prop.value])) for every
\* choice of at most k of the properties
RECURSIVE StyleMaps(_, _)
StyleMaps(props, k) ==
  IF k = 0 \/ props = {} THEN {[p \in {} |-> Undefined]}
  ELSE The({ StyleMaps(props \ {p}, k)
             \cup { m @@ (CssName[p] :> v) :
                    m \in StyleMaps(props \ {p}, k - 1), v \in StyleValues[p] } :
             p \in {CHOOSE q \in props : TRUE} })

\* DOM.getBoxModel: a content quad, in half pixels (the quad from 0 to -2 is
\* the one of a mirrored element: its first corner is the right one)
BoxModels ==
  { [content |-> <<x1, y1, x2, y1, x2, y2, x1, y2>>, width |-> x2 - x1, height |-> y2 - y1] :
    x1 \in {-6, -5, 0}, x2 \in {-2, 20, 24, 25}, y1 \in {-6, 0}, y2 \in {20, 26} }

Viewports == {[clientWidth |-> 10, clientHeight |-> 10]}

\* more positions of the quad around the edges of two viewports
WideBoxModels ==
  { [content |-> <<x1, y1, x2, y1, x2, y2, x1, y2>>, width |-> x2 - x1, height |-> y2 - y1] :
    <<x1, x2>> \in {p \in {-6, -5, 0, 20, 22} \X {-2, 0, 20, 24, 25} : p[1] <= p[2]},
    <<y1, y2>> \in {p \in {-6, 0, 18, 22} \X {-2, 0, 20, 26} : p[1] <= p[2]} }

WideViewports == Viewports \cup {[clientWidth |-> 12, clientHeight |-> 8]}

\* a visible element in normal flow
PlainStyle == ("display" :> "block") @@ ("visibility" :> "visible") @@ ("opacity" :> "1")

Snapshots ==
  [model : BoxModels, viewport : Viewports,
   styleMap : StyleMaps(DOMAIN StyleValues, MaxStyles)]
  \cup [model : WideBoxModels, viewport : WideViewports,
        styleMap : StyleMaps(DOMAIN StyleValues, MaxStyles - 1) \cup {PlainStyle}]

InitDiag ==
  /\ DiagLoaded
  /\ ToolLoaded
  /\ RestartLoaded /\ ExtensionLoaded
  /\ CodecLoaded /\ BridgeLoaded /\ relayReady = FALSE /\ HostLoaded /\ ClockLoaded

\* steps 1 to 5 of the handler: the five CDP round trips all answer
CollectSnapshot ==
  /\ phase = "idle"
  /\ \E s \in Snapshots : snapshot' = s
  /\ phase' = "collected"
  /\ UNCHANGED report
  /\ UNCHANGED outsideDiag

\* one of the round trips rejects and the handler throws
CollectFails ==
  /\ phase = "idle"
  /\ phase' = "failed"
  /\ report' = [NoReport EXCEPT !.status = "error"]
  /\ UNCHANGED snapshot
  /\ UNCHANGED outsideDiag

\* steps 6 to 9 of the handler; an exception of a rule family ends the call
BuildReport ==
  /\ phase = "collected"
  /\ \E allIssues \in {AllIssues(snapshot.styleMap, extractBounds(snapshot.model),
                                  snapshot.viewport)} :
       IF Thrown(allIssues)
       THEN phase' = "failed" /\ report' = [NoReport EXCEPT !.status = "threw"]
       ELSE phase' = "done" /\ report' = Result(Sort(allIssues))
  /\ UNCHANGED snapshot
  /\ UNCHANGED outsideDiag

NextDiag ==
  \/ CollectSnapshot
  \/ CollectFails
  \/ BuildReport

SpecDiag == InitDiag /\ [][NextDiag]_vars

(***************************************************************************)
(* The tool-call handler of the MCP server.  A selector is a sequence of   *)
(* one-character strings.                                                  *)
(***************************************************************************)
SelectorChars == {" ", "1", "a", "[", "]", "(", ")"}

RECURSIVE TrimStart(_)
TrimStart(s) == IF s # <<>> /\ Head(s) = " " THEN TrimStart(Tail(s)) ELSE s
RECURSIVE TrimEnd(_)
TrimEnd(s) ==
  IF s # <<>> /\ s[Len(s)] = " " THEN TrimEnd(SubSeq(s, 1, Len(s) - 1)) ELSE s
\* String.prototype.trim
Trim(s) == TrimEnd(TrimStart(s))
\* (trimmed.match(/c/g) || []).length
Matches(s, c) == Cardinality({i \in 1..Len(s) : s[i] = c})

Valid == [valid |-> TRUE, error |-> "none"]
Invalid(error) == [valid |-> FALSE, error |-> error]

\* !selector: the argument is missing or the empty string
Falsy(args) == ~args.present \/ args.selector = <<>>

\* function validateSelector(selector)
validateSelector(args) ==
  IF Falsy(args) THEN Invalid("Selector must be a non-empty string")
  ELSE IF Len(Trim(args.selector)) = 0
       THEN Invalid("Selector cannot be empty or whitespace only")
  ELSE IF Trim(args.selector)[1] \in {"0", "1", "2", "3", "4", "5", "6", "7", "8", "9"}
       THEN Invalid("Selector cannot start with a number")
  ELSE IF Matches(Trim(args.selector), "[") # Matches(Trim(args.selector), "]")
       THEN Invalid("Selector has unbalanced brackets")
  ELSE IF Matches(Trim(args.selector), "(") # Matches(Trim(args.selector), ")")
       THEN Invalid("Selector has unbalanced parentheses")
  ELSE Valid

\* the tools called here: highlight_element stands for the tools of
\* tools.js, whose handlers differ in the function they call
ToolNames ==
  {"connect_browser", "diagnose_layout", "highlight_element", "get_event_listeners",
   "no_such_tool"}
TakesSelector == {"diagnose_layout", "highlight_element", "get_event_listeners"}

RECURSIVE SeqsUpTo(_, _)
SeqsUpTo(S, n) ==
  IF n = 0 THEN {<<>>}
  ELSE SeqsUpTo(S, n - 1)
       \cup {Append(s, c) : s \in {t \in SeqsUpTo(S, n - 1) : Len(t) = n - 1}, c \in S}

Arguments ==
  {[present |-> FALSE, selector |-> <<>>]}
  \cup [present : {TRUE}, selector : SeqsUpTo(SelectorChars, MaxSelector)]

\* mutant: the viewport metrics are asked for before the box model
CommandsMetricsFirst(name) ==
  CASE name = "diagnose_layout" ->
         <<"DOM.getDocument", "DOM.querySelector", "Page.getLayoutMetrics",
           "DOM.getBoxModel", "CSS.getComputedStyleForNode">>
    [] name = "highlight_element" ->
         <<"DOM.getDocument", "DOM.querySelector", "DOM.highlightNode">>
    [] name = "get_event_listeners" ->
         <<"DOM.getDocument", "DOM.querySelector", "DOMDebugger.getEventListeners">>
    [] OTHER -> <<>>

\* the remote commands a tool issues, in order
Commands(name) ==
  CASE name = "diagnose_layout" ->
         <<"DOM.getDocument", "DOM.querySelector", "DOM.getBoxModel",
           "Page.getLayoutMetrics", "CSS.getComputedStyleForNode">>
    [] name = "highlight_element" ->
         <<"DOM.getDocument", "DOM.querySelector", "DOM.highlightNode">>
    [] name = "get_event_listeners" ->
         <<"DOM.getDocument", "DOM.querySelector", "DOMDebugger.getEventListeners">>
    [] OTHER -> <<>>

\* the catch block of the handler: content with isError: true
ErrorReply(message) == [isError |-> TRUE, text |-> message]
\* return { content: [{ type: "text", text: JSON.stringify(...) }] }
Success(text) == [isError |-> FALSE, text |-> text]

\* the handler up to its first await
Entry(name, args) ==
  CASE name = "connect_browser" -> "connecting"
    [] name = "diagnose_layout" ->
         IF Falsy(args) THEN "selector is required"
         ELSE IF ~validateSelector(args).valid THEN "Invalid CSS selector"
         ELSE "connecting"
    [] name \in {"highlight_element", "get_event_listeners"} ->
         IF Falsy(args) THEN "selector is required" ELSE "connecting"
    [] OTHER -> "Unknown tool"

\* what a failure of the given command becomes: getEventListeners of
\* tools.js catches it and returns a result with an empty listener list
Raised(name, method, message) ==
  IF name = "get_event_listeners" /\ method = "DOMDebugger.getEventListeners"
  THEN Success("listeners: []")
  ELSE ErrorReply(message)

InitTool ==
  /\ ToolLoaded
  /\ RestartLoaded /\ ExtensionLoaded
  /\ CodecLoaded /\ BridgeLoaded /\ relayReady = FALSE /\ HostLoaded /\ ClockLoaded
  /\ DiagLoaded

\* a CallToolRequest arrives; the handler runs to its first await or throws
ToolCall(name, args) ==
  /\ step = "idle"
  /\ call' = [name |-> name, present |-> args.present, selector |-> args.selector]
  /\ IF Entry(name, args) = "connecting"
     THEN step' = "connecting" /\ UNCHANGED <<reply, fault>>
     ELSE /\ step' = "returned"
          /\ reply' = ErrorReply(Entry(name, args))
          /\ fault' = Entry(name, args)
  /\ UNCHANGED sent
  /\ UNCHANGED outsideTool

\* ensureConnected, and reconnect when it fails, have returned
ToolConnects(connected) ==
  /\ step = "connecting"
  /\ IF call.name = "connect_browser"
     THEN /\ step' = "returned"
          /\ reply' = Success(IF connected THEN "connected" ELSE "waiting")
          /\ UNCHANGED fault
     ELSE IF connected
     THEN step' = "calling" /\ UNCHANGED <<reply, fault>>
     ELSE /\ step' = "returned"
          /\ reply' = ErrorReply("Browser extension not connected")
          /\ fault' = "not connected"
  /\ UNCHANGED <<call, sent>>
  /\ UNCHANGED outsideTool

\* sendCDPCommand gives the next command to the transport
ToolSends ==
  /\ step = "calling"
  /\ sent' = Append(sent, Commands(call.name)[Len(sent) + 1])
  /\ step' = "awaiting"
  /\ UNCHANGED <<call, fault, reply>>
  /\ UNCHANGED outsideTool

\* sendCDPCommand finds no connection and throws before sending
ToolSendFails ==
  /\ step = "calling"
  /\ step' = "returned"
  /\ reply' = Raised(call.name, Commands(call.name)[Len(sent) + 1], "Native host not connected")
  /\ fault' = "not connected"
  /\ UNCHANGED <<call, sent>>
  /\ UNCHANGED outsideTool

\* the promise of the last command settles: a result, a result without a
\* node (DOM.querySelector), the peer's error, or the deadline
ToolReceives(outcome) ==
  /\ step = "awaiting"
  /\ outcome = "no node" => sent[Len(sent)] = "DOM.querySelector"
  /\ CASE outcome = "result" /\ Len(sent) < Len(Commands(call.name)) ->
            step' = "calling" /\ UNCHANGED <<reply, fault>>
       [] outcome = "result" /\ Len(sent) = Len(Commands(call.name)) ->
            step' = "returned" /\ reply' = Success("result") /\ UNCHANGED fault
       [] outcome = "no node" ->
            /\ step' = "returned" /\ fault' = "element not found"
            /\ reply' = ErrorReply("Element not found")
       [] outcome = "error" ->
            /\ step' = "returned" /\ fault' = "remote command error"
            /\ reply' = Raised(call.name, sent[Len(sent)], "remote error")
       [] outcome = "timeout" ->
            /\ step' = "returned" /\ fault' = "timeout"
            /\ reply' = Raised(call.name, sent[Len(sent)], "CDP command timeout")
  /\ UNCHANGED <<call, sent>>
  /\ UNCHANGED outsideTool

NextTool ==
  \/ \E name \in ToolNames, args \in Arguments : ToolCall(name, args)
  \/ \E connected \in BOOLEAN : ToolConnects(connected)
  \/ ToolSends
  \/ ToolSendFails
  \/ \E outcome \in {"result", "no node", "error", "timeout"} : ToolReceives(outcome)

SpecTool == InitTool /\ [][NextTool]_vars

(***************************************************************************)
(* Claims about the framing codec (checked under SpecCodec)                *)
(***************************************************************************)
RECURSIVE IsSubsequence(_, _)
IsSubsequence(a, b) ==
  IF a = <<>> THEN TRUE
  ELSE IF b = <<>> THEN FALSE
  ELSE IF Head(a) = Head(b) THEN IsSubsequence(Tail(a), Tail(b))
  ELSE IsSubsequence(a, Tail(b))

\* C1: framing round trip.  When the stream is exactly one frame produced by
\* sendToExtension for an envelope E and all its bytes have been read, the
\* decoder has emitted exactly <<E>> and its buffer is empty.
C1_FramingRoundTrip ==
  (Len(script) = 1 /\ AllGood(script) /\ stdin = <<>>)
    => (emitted = EnvelopesOf(script) /\ buffer = <<>>)

\* C2: chunking independence.  For a stream of well-formed frames, once all
\* bytes have been read the emitted sequence is the one the decoder emits
\* when the whole stream arrives as one contiguous chunk.
C2_ChunkingIndependence ==
  (AllGood(script) /\ stdin = <<>>)
    => emitted = ReadLoop(StreamOf(script), 0, <<>>).out

\* C3: recovery.  After a malformed item (oversized length prefix, unprefixed
\* JSON, frame with an unparsable payload) every well-formed frame that
\* follows is still emitted, in order, once all bytes have been read.
C3_RecoveryKeepsLaterFrames ==
  (Len(script) >= 2 /\ ~ItemPool[script[1]].good /\ AllGood(Tail(script))
     /\ stdin = <<>>)
    => IsSubsequence(EnvelopesOf(script), emitted)

(***************************************************************************)
(* Claims about the bridge client (checked under SpecBridge)               *)
(***************************************************************************)
Issued(c) == calls[c].id # 0
Outstanding(c) == Issued(c) /\ calls[c].outcome = "none"
WirePos(id) == {i \in 1..Len(wire) : wire[i].id = id}

\* C4: request IDs.  No two calls ever share an ID, every entry of the
\* pending table belongs to the call that was issued that ID, and an ID
\* issued in a step is greater than every ID issued before it.
C4_RequestIdsIncrease ==
  /\ [](/\ \A c, d \in Calls : (c # d /\ Issued(c) /\ Issued(d)) => calls[c].id # calls[d].id
        /\ \A id \in DOMAIN pendingCDPRequests :
             calls[pendingCDPRequests[id]].id = id /\ Outstanding(pendingCDPRequests[id]))
  /\ [][\A c \in Calls : (~Issued(c) /\ calls'[c].id # 0) =>
          \A d \in Calls : Issued(d) => calls'[c].id > calls[d].id]_vars

\* two requests issued on different connections, the later one still in the
\* pending table
C4_Witness ==
  \E c, d \in Calls :
    /\ c # d /\ Issued(c) /\ Issued(d)
    /\ calls[c].origin # calls[d].origin
    /\ calls[c].id < calls[d].id
    /\ calls[d].id \in DOMAIN pendingCDPRequests

\* C5: a response whose id is not in the pending table changes neither the
\* table, nor the timers, nor any call's promise; no promise has resolve or
\* reject invoked on it more than once.
C5_LateResponseIsNoOp ==
  /\ [][(\E c \in Calls : ~calls[c].late /\ calls'[c].late) =>
          /\ pendingCDPRequests' = pendingCDPRequests
          /\ timers' = timers
          /\ \A d \in Calls : calls'[d] = [calls[d] EXCEPT !.late = calls'[d].late]]_vars
  /\ [](\A c \in Calls : calls[c].settles <= 1)

\* a response arrived for a timed-out request while another one was in flight
C5_Witness ==
  \E c, d \in Calls :
    /\ calls[c].late /\ calls[c].outcome = "timeout"
    /\ d # c /\ Outstanding(d) /\ calls[d].id \in DOMAIN pendingCDPRequests

C7_CorrelationById ==
  /\ [](\A c \in Calls : calls[c].outcome \in {"resolved", "remote_error"} =>
          calls[c].via = calls[c].id)
  /\ [][\A c \in Calls :
          (calls[c].outcome = "none" /\ calls'[c].outcome \in {"resolved", "remote_error"}) =>
            \A d \in Calls : d # c => calls'[d] = calls[d]]_vars

\* the responses arrived in the reverse of the dispatch order
C7_Witness ==
  \E c, d \in Calls :
    /\ Issued(c) /\ Issued(d) /\ calls[c].id < calls[d].id
    /\ calls[d].outcome = "resolved" /\ calls[d].value = "r2"
    /\ Outstanding(c) /\ calls[c].id \in DOMAIN pendingCDPRequests

\* C8: every call of sendCDPCommand eventually resolves or rejects
\* (checked under SpecBridgeFair).
C8_EveryDispatchSettles ==
  \A c \in Calls : (calls[c].pc # "idle") ~> (calls[c].outcome # "none")

\* C9: no request is written to a socket more than once, and none is
\* written by a retry after a reconnect.
C9_NoRetry ==
  /\ \A i \in 1..Len(wire) : ~wire[i].retry
  /\ \A c \in Calls : Cardinality(WirePos(calls[c].id)) <= 1

\* C10: of two calls that took their IDs on the same connection, the one
\* with the smaller ID is written to the socket first.
C10_DispatchOrder ==
  \A a, b \in Calls :
    (Issued(a) /\ Issued(b) /\ calls[a].origin = calls[b].origin
       /\ calls[a].id < calls[b].id /\ WirePos(calls[b].id) # {})
      => \E i \in WirePos(calls[a].id) : \A j \in WirePos(calls[b].id) : i < j

\* two requests were dispatched and written on one connection
C10_Witness ==
  /\ Len(wire) = 2
  /\ wire[1].sock = wire[2].sock
  /\ wire[1].id = 1 /\ wire[2].id = 2

\* C11: a call that finds no open connection and whose bounded wait ends
\* without one fails with the not-connected error; that call has taken no
\* request ID, has no entry in the pending table and no deadline timer, and
\* the step that fails it changes neither the counter, the table, the timers
\* nor what was written to the socket.
C11_NotConnectedConsumesNothing ==
  /\ [](\A c \in Calls : calls[c].outcome = "not_connected" =>
          /\ calls[c].id = 0
          /\ c \notin timers
          /\ c \notin MapValues(pendingCDPRequests))
  /\ [][\A c \in Calls :
          (calls[c].pc = "connectWait" /\ calls'[c].pc # "connectWait") =>
            IF isNativeHostConnected
            THEN calls'[c].outcome # "not_connected"
            ELSE /\ calls'[c].outcome = "not_connected"
                 /\ UNCHANGED <<messageIdCounter, pendingCDPRequests, timers, wire>>]_vars

\* a call failed as not connected while another call holds the only ID issued
C11_Witness ==
  \E c, d \in Calls :
    /\ calls[c].outcome = "not_connected"
    /\ Issued(d) /\ messageIdCounter = calls[d].id + 1

(***************************************************************************)
(* Claims about the connection machine (checked under SpecConnect and,     *)
(* for the liveness parts, SpecConnectLive)                                *)
(***************************************************************************)
\* a socket that can still emit events to handlers of the client
Live(s) == listeners[s] /\ readyState[s] \in {"CONNECTING", "OPEN", "CLOSING"}

\* the 'close' handler of socket s runs in this step
CloseHandled(s) == listeners[s] /\ readyState[s] # "CLOSED" /\ readyState'[s] = "CLOSED"

\* all attempts the model allows have been made
Exhausted == Fresh \notin Sockets

\* C12: every run of the 'close' handler (close event, failed handshake)
\* leaves the retry timer armed, however many attempts were made; and a
\* started client that is not connected while the relay is ready becomes
\* connected, unless the relay stops being ready, the client is stopped or
\* the model's supply of sockets runs out.
C12_ReconnectsForever ==
  /\ [][\A s \in Sockets : CloseHandled(s) => reconnectTimer']_vars
  /\ (relayReady /\ bridge = "started" /\ ~isNativeHostConnected /\ ~Exhausted)
       ~> (isNativeHostConnected \/ ~relayReady \/ bridge # "started" \/ Exhausted)

\* connected on a later socket after an attempt ended in the 'close' handler
C12_Witness ==
  /\ bridge = "started" /\ relayReady /\ isNativeHostConnected
  /\ \E s \in Sockets : s < socket /\ listeners[s] /\ readyState[s] = "CLOSED"

\* no socket, no retry timer, no socket that could still call a handler
Quiet ==
  /\ bridge = "stopped" /\ socket = 0 /\ ~reconnectTimer
  /\ \A s \in Sockets : ~Live(s)

\* this step is the start of an ensureConnected or sendCDPCommand call
ExplicitCall ==
  \/ ensure # "polling" /\ ensure' = "polling"
  \/ \E c \in Calls : calls[c].pc = "idle" /\ calls'[c].pc # "idle"

\* C13: stopNativeBridge leaves no socket, no retry timer, an empty pending
\* table with every formerly pending request rejected, and no socket with
\* handlers; from then on no timer or socket event creates a socket or arms
\* the timer, only the start of a later explicit call can.
C13_StopIsTerminal ==
  /\ [][(bridge = "started" /\ bridge' = "stopped") =>
          /\ Quiet'
          /\ DOMAIN pendingCDPRequests' = {}
          /\ \A c \in MapValues(pendingCDPRequests) :
               calls'[c].outcome = "stopped" /\ c \notin timers']_vars
  /\ [][(Quiet /\ ~ExplicitCall) => Quiet']_vars

\* stopped with a request rejected by the stop, the closed socket's close
\* event already delivered to nobody
C13_Witness ==
  /\ Quiet
  /\ \E c \in Calls : calls[c].outcome = "stopped"
  /\ \E s \in Sockets : readyState[s] = "CLOSED" /\ ~listeners[s]

\* C14: startNativeBridge completes in one step that only arms the timer (no
\* socket exists yet); ensureConnected returns true only with the socket
\* open at that moment, false only with it not open, its result is not
\* changed by later socket events, and it always returns.
C14_EnsureNeverBlocks ==
  /\ [][(bridge = "init" /\ bridge' = "started") =>
          (socket' = 0 /\ reconnectTimer' /\ UNCHANGED readyState)]_vars
  /\ [][(ensure # "true" /\ ensure' = "true") => isNativeHostConnected']_vars
  /\ [][(ensure # "false" /\ ensure' = "false") => ~isNativeHostConnected']_vars
  /\ [][(ensure \in {"true", "false"} /\ ensure' # ensure) =>
          UNCHANGED <<socket, readyState>>]_vars
  /\ (ensure = "polling") ~> (ensure # "polling")

\* ensureConnected returned false and the attempt it triggered succeeded later
C14_Witness == ensure = "false" /\ isNativeHostConnected

Connects(p) == peerState[p] = "UNBORN" /\ peerState'[p] # "UNBORN"

C17_ReferenceNeverDangles ==
  /\ [](activeClient # 0 => peerState[activeClient] \in {"OPEN", "CLOSING"})
  /\ [][\A p \in Peers :
          (peerState[p] # "CLOSED" /\ peerState'[p] = "CLOSED" /\ p # activeClient) =>
            activeClient' = activeClient]_vars

\* a replaced peer's close event was handled while its successor is open
C17_Witness ==
  \E p \in replaced :
    /\ peerState[p] = "CLOSED"
    /\ activeClient # 0 /\ activeClient # p /\ peerState[activeClient] = "OPEN"
    /\ \A q \in Peers : (q # p /\ q # activeClient) => peerState[q] = "UNBORN"

\* C18: a message changes an inbox only in the step in which it arrives,
\* and only by being appended to the inbox of the active peer, which is
\* open; a message that arrives with no open active peer (and a keep-alive)
\* changes nothing in the relay: it is kept nowhere and reaches no peer later.
C18_ForwardFailsFast ==
  [][/\ inbox' # inbox => arrivals' = arrivals + 1
     /\ arrivals' = arrivals + 1 =>
          IF activeClient # 0 /\ peerState[activeClient] = "OPEN"
          THEN \A p \in Peers :
                 /\ p # activeClient => inbox'[p] = inbox[p]
                 /\ inbox'[p] # inbox[p] =>
                      (Len(inbox'[p]) = Len(inbox[p]) + 1
                         /\ inbox'[p][Len(inbox'[p])].n = arrivals'
                         /\ SubSeq(inbox'[p], 1, Len(inbox[p])) = inbox[p])
          ELSE UNCHANGED <<inbox, activeClient, peerState, peerHandlers>>]_vars

\* the first response arrived while the active peer was closing and was
\* dropped; the second one reached the peer adopted in between
C18_Witness ==
  /\ arrivals = 2
  /\ \E p \in Peers : p \in replaced /\ inbox[p] = <<>>
  /\ \E q \in Peers : Len(inbox[q]) = 1 /\ inbox[q][1].n = 2
  /\ \A p \in Peers : \A i \in 1..Len(inbox[p]) : inbox[p][i].n # 1

(***************************************************************************)
(* Claims about the deadlines (checked under SpecClock)                    *)
(***************************************************************************)
\* C19: the caller's deadline is shorter than the downstream one, so no
\* request is ever failed by the downstream peer's timeout error: when that
\* error arrives the caller has already timed out.
C19_CallerTimesOutFirst == caller # "downstream_timeout"

(***************************************************************************)
(* Claims about diagnose_layout (checked under SpecDiag)                   *)
(***************************************************************************)
\* the order in which the rules are evaluated: visibility, offscreen,
\* overlay/stacking, overflow
RuleOrder ==
  <<"hidden-display", "hidden-visibility", "hidden-collapse", "hidden-opacity",
    "low-opacity", "hidden-clip-path", "zero-dimensions",
    "offscreen-right", "offscreen-bottom", "offscreen-left", "offscreen-top",
    "completely-offscreen",
    "modal-no-zindex", "modal-low-zindex", "modal-not-centered", "stacking-context",
    "backdrop-opaque",
    "overflow-hidden", "scroll-container">>
RulePosition(type) == CHOOSE i \in 1..Len(RuleOrder) : RuleOrder[i] = type
SeverityRank(severity) ==
  CASE severity = "high" -> 0 [] severity = "medium" -> 1 [] severity = "low" -> 2
PlaceOf(type) == CHOOSE i \in 1..Len(report.issues) : report.issues[i].type = type
Reported(type) == \E i \in 1..Len(report.issues) : report.issues[i].type = type

\* C20: the issues of a report are sorted high, medium, low, and issues of
\* equal severity appear in rule-evaluation order.
C20_SortedAndStable ==
  phase = "done" =>
    \A i, j \in 1..Len(report.issues) :
      i < j =>
        \/ SeverityRank(report.issues[i].severity) < SeverityRank(report.issues[j].severity)
        \/ /\ report.issues[i].severity = report.issues[j].severity
           /\ RulePosition(report.issues[i].type) < RulePosition(report.issues[j].type)

\* a report where the sort moved a medium issue behind high issues of a later
\* rule and kept high issues of two families in evaluation order
C20_Witness ==
  /\ phase = "done"
  /\ Reported("hidden-display") /\ Reported("offscreen-right")
  /\ Reported("offscreen-bottom") /\ Reported("offscreen-left")
  /\ PlaceOf("hidden-display") < PlaceOf("offscreen-right")
  /\ PlaceOf("offscreen-right") < PlaceOf("offscreen-left")
  /\ PlaceOf("offscreen-left") < PlaceOf("offscreen-bottom")

Bounds == extractBounds(snapshot.model)
InsideViewport ==
  /\ {Bounds.left, Bounds.right} \subseteq 0..snapshot.viewport.clientWidth
  /\ {Bounds.top, Bounds.bottom} \subseteq 0..snapshot.viewport.clientHeight
NoRuleFires == AllIssues(snapshot.styleMap, Bounds, snapshot.viewport) = <<>>

\* C21: when no rule fires (as for a plain visible element inside the
\* viewport) the issues list is exactly the one no-issues entry, never empty,
\* and the confidence is lower than the one reported when a rule fires.
C21_NoIssueSubstitution ==
  phase = "done" =>
    /\ report.issues # <<>>
    /\ (snapshot.styleMap = PlainStyle /\ InsideViewport) => NoRuleFires
    /\ NoRuleFires =>
         /\ Len(report.issues) = 1 /\ report.issues[1].type = "none"
         /\ report.confidence < 95
    /\ ~NoRuleFires => report.confidence = 95 /\ ~Reported("none")

C21_Witness ==
  /\ phase = "done"
  /\ snapshot.styleMap = PlainStyle /\ InsideViewport
  /\ report.issues = NoIssues /\ report.confidence = 85

\* the issues of the report that have the given type
IssuesOf(type) == {i \in 1..Len(report.issues) : report.issues[i].type = type}

\* C22: a snapshot whose left bound is below -2 gets exactly one
\* offscreen-left issue, of severity high and with pixels = |left|, which is
\* not zero; a snapshot with left >= -2 gets none.
C22_OffscreenLeft ==
  phase = "done" =>
    IF Bounds.left < -2
    THEN /\ Cardinality(IssuesOf("offscreen-left")) = 1
         /\ \A i \in IssuesOf("offscreen-left") :
              /\ report.issues[i].severity = "high"
              /\ report.issues[i].pixels = Abs(Bounds.left)
              /\ report.issues[i].pixels # 0
    ELSE IssuesOf("offscreen-left") = {}

C22_Witness ==
  /\ phase = "done"
  /\ Bounds.left = -3
  /\ \E i \in IssuesOf("offscreen-left") : report.issues[i].pixels = 3

\* C23: a snapshot whose computed display is none gets exactly one
\* hidden-display issue, of severity high, whatever its geometry; any other
\* display value, or none at all, gets no such issue.
C23_HiddenDisplay ==
  phase = "done" =>
    IF "display" \in DOMAIN snapshot.styleMap /\ snapshot.styleMap["display"] = "none"
    THEN /\ Cardinality(IssuesOf("hidden-display")) = 1
         /\ \A i \in IssuesOf("hidden-display") : report.issues[i].severity = "high"
    ELSE IssuesOf("hidden-display") = {}

\* display: none on an element that is also wholly outside the viewport
C23_Witness ==
  /\ phase = "done"
  /\ Cardinality(IssuesOf("hidden-display")) = 1
  /\ Reported("completely-offscreen")

\* the bounding box and the viewport rectangle [0, width] x [0, height]
\* have a point <<x, y>> in common
CommonPoint ==
  The({ /\ \E x \in 0..snapshot.viewport.clientWidth : b.left <= x /\ x <= b.right
        /\ \E y \in 0..snapshot.viewport.clientHeight : b.top <= y /\ y <= b.bottom :
        b \in {Bounds} })

Requires(type) ==
  CASE type = "hidden-display" -> {{"display"}}
    [] type \in {"hidden-visibility", "hidden-collapse"} -> {{"visibility"}}
    [] type \in {"hidden-opacity", "low-opacity"} -> {{"opacity"}}
    [] type = "hidden-clip-path" -> {{"clip-path"}}
    [] type = "zero-dimensions" -> {{"width", "height"}}
    [] type \in {"modal-no-zindex", "modal-not-centered"} -> {{"position"}}
    [] type = "modal-low-zindex" -> {{"position", "z-index"}}
    [] type = "stacking-context" ->
         {{"isolation"}, {"mix-blend-mode"}, {"filter"}, {"will-change"}}
    [] type = "backdrop-opaque" -> {{"position", "background-color"}}
    [] type \in {"overflow-hidden", "scroll-container"} ->
         {{"overflow"}, {"overflow-x"}, {"overflow-y"}}
    [] OTHER -> {{}}

\* C25: the rule engine is total: on every snapshot, with any of the
\* inspected properties absent, the four rule families return a list and do
\* not throw, and a rule that compares a property with a particular string
\* does not fire when that property is absent.
C25_EngineTotal ==
  /\ report.status # "threw"
  /\ phase = "done" =>
       \A i \in 1..Len(report.issues) :
         \E present \in Requires(report.issues[i].type) :
           present \subseteq DOMAIN snapshot.styleMap

\* a fixed element without transform, left or z-index: the centring rule
\* reads the absent transform and the engine still answers
C25_Witness ==
  /\ phase = "done"
  /\ DOMAIN snapshot.styleMap = {"position"}
  /\ snapshot.styleMap["position"] = "fixed"
  /\ Reported("modal-not-centered") /\ Reported("modal-no-zindex")

\* the computed z-index of the snapshot as a number, where it is one
Numerals == {"-1", "0", "5", "100"}
NumeralValue(s) ==
  CASE s = "-1" -> -1 [] s = "0" -> 0 [] s = "5" -> 5 [] s = "100" -> 100
Positioned ==
  /\ "position" \in DOMAIN snapshot.styleMap
  /\ snapshot.styleMap["position"] \in {"fixed", "absolute", "relative"}
ZResolves ==
  "z-index" \in DOMAIN snapshot.styleMap /\ snapshot.styleMap["z-index"] \in Numerals
SeverityOf(type) == {report.issues[i].severity : i \in IssuesOf(type)}

\* C26: for a fixed, absolute or relative element: no resolvable z-index
\* gives one modal-no-zindex (medium) and no modal-low-zindex; a z-index
\* below 100 gives one modal-low-zindex (low) and no modal-no-zindex; a
\* z-index of 100 or more gives neither. Any other position gives neither.
C26_ZIndexRule ==
  phase = "done" =>
    /\ Cardinality(IssuesOf("modal-no-zindex")) =
         (IF Positioned /\ ~ZResolves THEN 1 ELSE 0)
    /\ Cardinality(IssuesOf("modal-low-zindex")) =
         (IF Positioned /\ ZResolves /\ NumeralValue(snapshot.styleMap["z-index"]) < 100
          THEN 1 ELSE 0)
    /\ SeverityOf("modal-no-zindex") \subseteq {"medium"}
    /\ SeverityOf("modal-low-zindex") \subseteq {"low"}

\* a relative element with z-index 0, which is a number though "0" is the
\* numeral of a falsy value
C26_Witness ==
  /\ phase = "done"
  /\ Positioned /\ snapshot.styleMap["position"] = "relative"
  /\ ZResolves /\ snapshot.styleMap["z-index"] = "0"
  /\ Reported("modal-low-zindex") /\ ~Reported("modal-no-zindex")

(***************************************************************************)
(* Claims about the tool-call handler (checked under SpecTool)             *)
(***************************************************************************)
CallArgs == [present |-> call.present, selector |-> call.selector]

\* C27: a call of a tool that takes a selector with an invalid selector
\* dispatches no remote command, and what it returns is an error.
C27_InvalidSelectorNoRoundTrip ==
  (call.name \in TakesSelector /\ ~validateSelector(CallArgs).valid) =>
    /\ sent = <<>>
    /\ step = "returned" => reply.isError

\* C28: a tool call in which something failed returns a payload marked as an
\* error that carries a message.
C28_FailuresAreErrors ==
  (step = "returned" /\ fault # "none") => (reply.isError /\ reply.text # "none")

(***************************************************************************)
(* Claims about the relay's start (checked under SpecHost)                 *)
(***************************************************************************)
\* a connection of a peer fails or ends
PeerFails == \E p \in Peers : peerState[p] = "OPEN" /\ peerState'[p] # "OPEN"

\* C30: when the port is in use the relay process ends, and it ends for no
\* other reason: it has adopted no peer and forwarded nothing, nothing
\* happens afterwards, and a failing connection never ends the process.
C30_PortInUseIsFatal ==
  /\ [](wssError = "EADDRINUSE" <=> wss = "exited")
  /\ [](wss = "exited" =>
         /\ activeClient = 0
         /\ \A p \in Peers : peerState[p] = "UNBORN" /\ inbox[p] = <<>>)
  /\ [][wss = "exited" => UNCHANGED hostVars]_vars
  /\ [][PeerFails => wss' = "listening"]_vars

\* the process ended on EADDRINUSE after the extension had sent messages
C30_Witness == wss = "exited" /\ wssError = "EADDRINUSE" /\ arrivals = MaxForwards

(***************************************************************************)
(* Claims about liveness probes (checked under SpecProbe)                  *)
(***************************************************************************)
\* the bridge client reads an envelope that is not a command response
ReadsProbe ==
  \E p \in Peers :
    /\ delivered'[p] = delivered[p] + 1
    /\ inbox[p][delivered[p] + 1].type # "cdp_response"

DiagnoseOrder ==
  <<"DOM.getDocument", "DOM.querySelector", "DOM.getBoxModel", "Page.getLayoutMetrics",
    "CSS.getComputedStyleForNode">>

Diagnosing == call.name = "diagnose_layout"

\* C31: diagnose_layout dispatches its commands one at a time in the order
\* getDocument, querySelector, getBoxModel, getLayoutMetrics,
\* getComputedStyleForNode, each while no earlier one is outstanding; once a
\* command was rejected or the element was not found the call has returned an
\* error and dispatches nothing more.
C31_CommandsInOrder ==
  /\ [](Diagnosing =>
         /\ Len(sent) <= Len(DiagnoseOrder)
         /\ sent = SubSeq(DiagnoseOrder, 1, Len(sent))
         /\ fault # "none" => step = "returned" /\ reply.isError)
  /\ [][(Diagnosing /\ sent' # sent) =>
          /\ step = "calling" /\ step' = "awaiting"
          /\ sent' = Append(sent, DiagnoseOrder[Len(sent) + 1])]_vars
  /\ [][(Diagnosing /\ fault # "none") => sent' = sent]_vars

\* the element was not found: two commands were dispatched and no third
C31_Witness ==
  /\ Diagnosing /\ step = "returned" /\ fault = "element not found"
  /\ sent = <<"DOM.getDocument", "DOM.querySelector">>
  /\ reply.isError

(***************************************************************************)
(* Claims about the teardown of a socket and the reconnect machine         *)
(* (checked under SpecBridge)                                              *)
(***************************************************************************)
\* reconnect() or attemptConnect() removes the listeners of a socket
TearsDown ==
  /\ \E s \in Sockets : listeners[s] /\ ~listeners'[s]
  /\ bridge' = bridge

\* C35: when reconnect() or attemptConnect() removes the listeners of a socket
\* and closes it, every pending request is rejected with the disconnection
\* error in that step and the pending table is empty afterwards.
C35_TeardownRejectsPending ==
  [][TearsDown =>
       /\ pendingCDPRequests' = EmptyMap
       /\ \A c \in MapValues(pendingCDPRequests) : calls'[c].outcome = "disconnected"]_vars

\* C36: between startNativeBridge and stopNativeBridge the bridge client has
\* a socket with its handlers attached or an armed connect timer.
C36_NoDeadState ==
  bridge = "started" => ((socket # 0 /\ listeners[socket]) \/ reconnectTimer)

\* a connection was lost and the next attempt is scheduled
C36_Witness ==
  /\ bridge = "started" /\ socket = 0 /\ reconnectTimer
  /\ \E s \in Sockets : readyState[s] = "CLOSED" /\ listeners[s]

(***************************************************************************)
(* Claims about what the relay writes downstream (checked under SpecRelay) *)
(***************************************************************************)
\* C37: every message the relay frames and writes to the downstream
\* transport was received from the peer that is the active peer at that
\* moment: never from a rejected duplicate, never from a replaced peer.
C37_OnlyActivePeerForwards ==
  [][downstream' # downstream =>
       /\ activeClient # 0
       /\ downstream' = Append(downstream, activeClient)]_vars

\* ---------------------------------------------------------------------
\* The extension's background script (src/extension/background.js).  One
\* step runs the script from a callback or event to the next suspension;
\* the steps are written as functions of the whole state w.
\* ---------------------------------------------------------------------
World ==
  [debuggerTabId |-> debuggerTabId, debuggerState |-> debuggerState,
   nativePort |-> nativePort, nativeHostConnected |-> nativeHostConnected,
   connects |-> connects, tabs |-> tabs, session |-> session, chrome |-> chrome,
   ops |-> ops, posted |-> posted, executed |-> executed, events |-> events]

Becomes(w) ==
  /\ debuggerTabId' = w.debuggerTabId /\ debuggerState' = w.debuggerState
  /\ nativePort' = w.nativePort /\ nativeHostConnected' = w.nativeHostConnected
  /\ connects' = w.connects /\ tabs' = w.tabs /\ session' = w.session
  /\ chrome' = w.chrome /\ ops' = w.ops /\ posted' = w.posted
  /\ executed' = w.executed /\ events' = w.events
  /\ w.events <= MaxEvents
  /\ UNCHANGED outsideExt

\* function connectNativeHost(): every connectNative call opens a new port
connectNativeHost(w) ==
  IF w.nativePort # 0 THEN w
  ELSE [w EXCEPT !.connects = @ + 1, !.nativePort = w.connects + 1,
                 !.nativeHostConnected = TRUE]

\* function disconnectNativeHost()
disconnectNativeHost(w) ==
  IF w.nativePort # 0
  THEN [w EXCEPT !.nativePort = 0, !.nativeHostConnected = FALSE]
  ELSE w

\* function sendToNativeHost(message), which reconnects when there is no port
sendToNativeHost(w, id, error) ==
  LET v == IF w.nativePort = 0 \/ ~w.nativeHostConnected THEN connectNativeHost(w) ELSE w
  IN  [v EXCEPT !.posted = Append(@, [id |-> id, error |-> error, port |-> v.nativePort])]

\* operation o calls the browser, which will call back with ok, and is
\* suspended at pc until then
Awaits(w, o, pc, ok) ==
  LET n == w.ops[o].calls + 1 IN
  [w EXCEPT !.ops[o].calls = n, !.ops[o].await = n, !.ops[o].pc = pc,
            !.chrome = Append(@, [op |-> o, token |-> n, ok |-> ok,
                                  event |-> "none", tab |-> 0])]

Returns(w, o, result) ==
  [w EXCEPT !.ops[o].pc = "done", !.ops[o].await = 0, !.ops[o].result = result]

\* chrome.debugger.detach({ tabId: t }) called by o
BrowserDetach(w, o, pc, t) ==
  Awaits([w EXCEPT !.session = @ \ {t}], o, pc, t \in w.session)

\* chrome.debugger.attach({ tabId: t }) called by o; fails: another debugger
\* holds the tab
BrowserAttach(w, o, pc, t, fails) ==
  LET can == t \in w.tabs /\ t \notin w.session
      ok == can /\ ~fails
  IN  Awaits([w EXCEPT !.session = IF ok THEN @ \cup {t} ELSE @,
                       !.events = IF can /\ fails THEN @ + 1 ELSE @], o, pc, ok)

\* chrome.debugger.sendCommand({ tabId: t }, ...) called by o
BrowserCommand(w, o, pc, t, fails) ==
  Awaits([w EXCEPT !.events = IF t \in w.session /\ fails THEN @ + 1 ELSE @],
         o, pc, t \in w.session /\ ~fails)

\* the test at the head of sendCDPCommand(tabId, ...)
AttachedTo(w, t) == w.debuggerState.attached /\ w.debuggerState.tabId = t

\* the catch block of attachDebugger
Catch(w, o) ==
  LET v == [w EXCEPT !.debuggerState = NoDebugger,
                     !.ops[o].failedAt = IF @ = "none" THEN w.ops[o].pc ELSE @]
  IN
  IF v.debuggerTabId # 0
  THEN BrowserDetach(v, o, "cleanup", v.debuggerTabId)
  ELSE Returns(v, o, "failure")

\* the catch block of enableCDPDomains from the j-th enabled domain on: a
\* disable that sendCDPCommand rejects at once is followed at once by the next;
\* whether a disable fails makes no difference to what follows
CleanupFrom(w, o, j) ==
  IF j > w.ops[o].k \/ ~AttachedTo(w, w.ops[o].tab)
  THEN Catch([w EXCEPT !.debuggerState.domainsEnabled = FALSE,
                       !.ops[o].failedAt = "enable"], o)
  ELSE BrowserCommand([w EXCEPT !.ops[o].j = j, !.ops[o].failedAt = "enable"],
                      o, "disable", w.ops[o].tab, FALSE)

\* the domains enableCDPDomains enables: DOM, CSS, Page
NumDomains == 3

\* the loop of enableCDPDomains after k domains are enabled
EnableNext(w, o, fails) ==
  IF w.ops[o].k = NumDomains
  THEN Returns(connectNativeHost([w EXCEPT !.debuggerState.domainsEnabled = TRUE]),
               o, "success")
  ELSE IF AttachedTo(w, w.ops[o].tab)
       THEN BrowserCommand(w, o, "enable", w.ops[o].tab, fails)
       ELSE CleanupFrom(w, o, 1)

\* attachDebugger from chrome.debugger.attach on
AttachNow(w, o, fails) == BrowserAttach(w, o, "attaching", w.ops[o].tab, fails)

\* attachDebugger(tabId) resumed with the outcome ok of the call it awaits
AttachResumed(w, o, ok, fails) ==
  LET pc == w.ops[o].pc
      t == w.ops[o].tab
  IN
  CASE pc = "get" ->
         IF ~ok \/ t \in SystemPages THEN Catch(w, o)
         ELSE IF /\ w.debuggerState.attached
                 /\ w.debuggerState.tabId # 0
                 /\ w.debuggerState.tabId # t
              THEN BrowserDetach(disconnectNativeHost(w), o, "predetach",
                                 w.debuggerState.tabId)
              ELSE AttachNow(w, o, fails)
    [] pc = "predetach" ->
         AttachNow([w EXCEPT !.debuggerTabId = 0, !.debuggerState = NoDebugger], o, fails)
    [] pc = "attaching" ->
         IF ok
         THEN EnableNext([w EXCEPT !.debuggerTabId = t,
                                   !.debuggerState =
                                     [attached |-> TRUE, tabId |-> t,
                                      domainsEnabled |-> FALSE]],
                         o, fails)
         ELSE Catch(w, o)
    [] pc = "enable" ->
         IF ok
         THEN EnableNext([w EXCEPT !.ops[o].k = @ + 1], o, fails)
         ELSE CleanupFrom(w, o, 1)
    [] pc = "disable" -> CleanupFrom(w, o, w.ops[o].j + 1)
    [] pc = "cleanup" -> Returns([w EXCEPT !.debuggerTabId = 0], o, "failure")

\* ---- the callback-based attachDebugger of src/unnamed/part_000 ----

\* the domains its enableCDPDomains enables: DOM, CSS, Page, Overlay
NumDomainsCopy == 4

\* what the popup is told 100 ms later: success: debuggerState.attached
ToldPopup(w, o) ==
  Returns(w, o, IF w.debuggerState.attached THEN "success" ELSE "failure")

\* enableNextDomain(): the command is sent without looking at debuggerState
EnableNextCopy(w, o, fails) ==
  IF w.ops[o].k >= NumDomainsCopy
  THEN ToldPopup([w EXCEPT !.debuggerState.domainsEnabled = TRUE], o)
  ELSE BrowserCommand(w, o, "enable", w.ops[o].tab, fails)

\* attachDebugger(tabId) of the copy at the callback it waits for.  It does
\* not wait for detachDebugger: the detach and the attach are both sent, and
\* their callbacks come back in that order
AttachResumedCopy(w, o, ok, fails) ==
  LET pc == w.ops[o].pc
      t == w.ops[o].tab
  IN
  CASE pc = "get" ->
         IF ~ok
         THEN ToldPopup([w EXCEPT !.debuggerState = NoDebugger, !.ops[o].failedAt = "get"], o)
         ELSE IF t \in SystemPages
         THEN ToldPopup([w EXCEPT !.ops[o].failedAt = "get"], o)
         ELSE IF /\ w.debuggerState.attached
                 /\ w.debuggerState.tabId # 0
                 /\ w.debuggerState.tabId # t
              THEN LET v == BrowserDetach(disconnectNativeHost(w), o, "predetach",
                                          w.debuggerState.tabId)
                       u == AttachNow(v, o, fails)
                   IN  [u EXCEPT !.ops[o].pc = "predetach", !.ops[o].await = @ - 1]
              ELSE AttachNow(w, o, fails)
    [] pc = "predetach" ->
         [w EXCEPT !.debuggerTabId = 0, !.debuggerState = NoDebugger,
                   !.ops[o].pc = "attaching", !.ops[o].await = w.ops[o].calls]
    [] pc = "attaching" ->
         IF ok
         THEN connectNativeHost(
                EnableNextCopy([w EXCEPT !.debuggerTabId = t,
                                         !.debuggerState =
                                           [attached |-> TRUE, tabId |-> t,
                                            domainsEnabled |-> FALSE]],
                               o, fails))
         ELSE ToldPopup([w EXCEPT !.debuggerState = NoDebugger,
                                 !.ops[o].failedAt = "attaching"], o)
    [] pc = "enable" ->
         IF ok
         THEN EnableNextCopy([w EXCEPT !.ops[o].k = @ + 1], o, fails)
         ELSE ToldPopup([w EXCEPT !.debuggerState.domainsEnabled = FALSE,
                                 !.ops[o].failedAt = "enable"], o)

\* operation o is the next one to be called
Callable(o) ==
  /\ ops[o].pc = "idle"
  /\ \A n \in OpIds : n < o => ops[n].pc # "idle"

\* the callback at the head of the browser's queue answers the call o awaits
Answers(o, kind) ==
  /\ ops[o].kind = kind
  /\ chrome # <<>>
  /\ Head(chrome).event = "none"
  /\ Head(chrome).op = o
  /\ Head(chrome).token = ops[o].await

Taken == [World EXCEPT !.chrome = Tail(chrome)]

Expired == [World EXCEPT !.events = @ + 1]

\* the popup asks to attach: attachDebugger(t) up to await chrome.tabs.get(t)
attachDebugger(o, t) ==
  /\ Callable(o)
  /\ Becomes(Awaits([World EXCEPT !.ops[o].kind = "attach", !.ops[o].tab = t],
                    o, "get", t \in tabs))

\* attachDebugger continues when the call it awaits calls back
AttachContinues(o, fails) ==
  /\ Answers(o, "attach")
  /\ Becomes(AttachResumed([Taken EXCEPT !.ops[o].await = 0], o, Head(chrome).ok, fails))

\* the copy's attachDebugger continues when the call it awaits calls back
AttachContinuesCopy(o, fails) ==
  /\ Answers(o, "attach")
  /\ Becomes(AttachResumedCopy([Taken EXCEPT !.ops[o].await = IF ops[o].pc = "predetach"
                                                             THEN @ ELSE 0],
                               o, Head(chrome).ok, fails))

\* the 5 s timers of attachDebugger's race and of sendCDPCommand reject first
AttachTimesOut(o, fails) ==
  /\ ops[o].kind = "attach"
  /\ ops[o].pc \in {"attaching", "enable", "disable"}
  /\ Becomes(AttachResumed([Expired EXCEPT !.ops[o].await = 0], o, FALSE, fails))

\* the popup asks to detach: detachDebugger() up to await chrome.debugger.detach
detachDebugger(o) ==
  LET targetTabId == IF debuggerState.tabId # 0 THEN debuggerState.tabId ELSE debuggerTabId
      w == disconnectNativeHost([World EXCEPT !.ops[o].kind = "detach"])
  IN
  /\ Callable(o)
  /\ Becomes(IF targetTabId = 0
             THEN Returns(w, o, "success")
             ELSE BrowserDetach([w EXCEPT !.ops[o].tab = targetTabId], o, "detaching",
                                targetTabId))

\* detachDebugger resets the state whether the browser detached or not
DetachContinues(o) ==
  /\ Answers(o, "detach")
  /\ Becomes(Returns([Taken EXCEPT !.debuggerTabId = 0, !.debuggerState = NoDebugger],
                     o, IF Head(chrome).ok THEN "success" ELSE "failure"))

\* handleNativeMessage({ type: 'cdp_request', id }) up to await sendCDPCommand;
\* the message arrives through the native port
handleCdpRequest(id) ==
  LET w == [World EXCEPT !.ops[id].kind = "ask"] IN
  /\ Callable(id)
  /\ nativePort # 0
  /\ Becomes(IF ~debuggerState.attached
             THEN Returns(sendToNativeHost(w, id, TRUE), id, "refused")
             ELSE [w EXCEPT !.ops[id].tab = debuggerState.tabId,
                            !.ops[id].pc = "running",
                            !.executed = @ \cup {id}])

\* the browser has run the command of request id, which takes the time it
\* takes, and calls back
CommandDone(id, fails) ==
  /\ ops[id].kind = "ask"
  /\ ops[id].pc = "running"
  /\ Becomes(BrowserCommand(World, id, "command", ops[id].tab, fails))

\* the command's callback: the response is the result or the error
CommandCallsBack(id) ==
  /\ Answers(id, "ask")
  /\ Becomes(Returns(sendToNativeHost(Taken, id, ~Head(chrome).ok), id, "answered"))

\* a timer whose rejection does not settle the promise
CommandTimesOutUnsettled(id) ==
  /\ ops[id].kind = "ask"
  /\ ops[id].pc \in {"running", "command"}
  /\ Becomes(sendToNativeHost(Expired, id, TRUE))

\* sendCDPCommand's 5 s timer rejects first
CommandTimesOut(id) ==
  /\ ops[id].kind = "ask"
  /\ ops[id].pc \in {"running", "command"}
  /\ Becomes(Returns(sendToNativeHost(Expired, id, TRUE), id, "timeout"))

\* a callback whose promise is already settled has no effect
LateCallback ==
  /\ chrome # <<>>
  /\ Head(chrome).event = "none"
  /\ Head(chrome).token # ops[Head(chrome).op].await
  /\ Becomes(Taken)

Event(name, t) ==
  [op |-> 0, token |-> 0, ok |-> TRUE, event |-> name, tab |-> t]

\* the reset shared by onDetach and onRemoved
Detached(w) ==
  disconnectNativeHost([w EXCEPT !.debuggerState = NoDebugger, !.debuggerTabId = 0])

\* chrome.debugger.onDetach listener
onDetach ==
  /\ chrome # <<>>
  /\ Head(chrome).event = "onDetach"
  /\ Becomes(IF Head(chrome).tab = debuggerState.tabId THEN Detached(Taken) ELSE Taken)

\* chrome.tabs.onRemoved listener
onRemoved ==
  /\ chrome # <<>>
  /\ Head(chrome).event = "onRemoved"
  /\ Becomes(IF Head(chrome).tab = debuggerState.tabId THEN Detached(Taken) ELSE Taken)

\* chrome.tabs.onUpdated listener, for changeInfo.status === 'loading'
onUpdated ==
  /\ chrome # <<>>
  /\ Head(chrome).event = "onUpdated"
  /\ Becomes(IF Head(chrome).tab = debuggerState.tabId
             THEN [Taken EXCEPT !.debuggerState.domainsEnabled = FALSE]
             ELSE Taken)

\* the tabs an attachDebugger call has named.  The listeners ignore an event
\* of a tab that is not debuggerState.tabId, and callbacks are delivered in
\* order, so an event of any other tab finds the state as it would without it
Named == { ops[o].tab : o \in { n \in OpIds : ops[n].kind = "attach" } }

\* the user closes tab t: the browser ends the debugger session on it
TabCloses(t) ==
  /\ t \in tabs \cap Named
  /\ Becomes([Expired EXCEPT
       !.tabs = @ \ {t}, !.session = @ \ {t},
       !.chrome = IF t \in session
                  THEN @ \o <<Event("onDetach", t), Event("onRemoved", t)>>
                  ELSE Append(@, Event("onRemoved", t))])

\* the user cancels debugging of tab t in the browser's infobar
UserCancels(t) ==
  /\ t \in session
  /\ Becomes([Expired EXCEPT !.session = @ \ {t},
                             !.chrome = Append(@, Event("onDetach", t))])

\* the user reloads tab t
TabReloads(t) ==
  /\ t \in tabs \cap Named
  /\ Becomes([Expired EXCEPT !.chrome = Append(@, Event("onUpdated", t))])

InitExt ==
  /\ ExtensionLoaded /\ RestartLoaded
  /\ CodecLoaded /\ BridgeLoaded /\ relayReady = FALSE /\ HostLoaded /\ ClockLoaded /\ DiagLoaded /\ ToolLoaded

NextExt ==
  \/ \E o \in OpIds, t \in TabIds : attachDebugger(o, t)
  \/ \E o \in OpIds, fails \in BOOLEAN : AttachContinues(o, fails)
  \/ \E o \in OpIds, fails \in BOOLEAN : AttachTimesOut(o, fails)
  \/ \E o \in OpIds : detachDebugger(o)
  \/ \E o \in OpIds : DetachContinues(o)
  \/ \E id \in OpIds : handleCdpRequest(id)
  \/ \E id \in OpIds, fails \in BOOLEAN : CommandDone(id, fails)
  \/ \E id \in OpIds : CommandCallsBack(id)
  \/ \E id \in OpIds : CommandTimesOut(id)
  \/ LateCallback
  \/ onDetach
  \/ onRemoved
  \/ onUpdated
  \/ \E t \in Pages : TabCloses(t)
  \/ \E t \in Pages : UserCancels(t)
  \/ \E t \in Pages : TabReloads(t)

SpecExt == InitExt /\ [][NextExt]_vars

\* the same extension with the attachDebugger of src/unnamed/part_000, which
\* has no timers of its own
NextCopy ==
  \/ \E o \in OpIds, t \in TabIds : attachDebugger(o, t)
  \/ \E o \in OpIds, fails \in BOOLEAN : AttachContinuesCopy(o, fails)
  \/ \E o \in OpIds : detachDebugger(o)
  \/ \E o \in OpIds : DetachContinues(o)
  \/ \E id \in OpIds : handleCdpRequest(id)
  \/ \E id \in OpIds, fails \in BOOLEAN : CommandDone(id, fails)
  \/ \E id \in OpIds : CommandCallsBack(id)
  \/ \E id \in OpIds : CommandTimesOut(id)
  \/ LateCallback
  \/ onDetach
  \/ onRemoved
  \/ onUpdated
  \/ \E t \in Pages : TabCloses(t)
  \/ \E t \in Pages : UserCancels(t)
  \/ \E t \in Pages : TabReloads(t)

SpecCopy == InitExt /\ [][NextCopy]_vars

\* the cdp_response messages posted for request id
Responses(id) == { n \in 1..Len(posted) : posted[n].id = id }

EnableFailedAlone(o) ==
  /\ ops'[o].kind = "attach" /\ ops'[o].failedAt = "enable"
  /\ \A p \in OpIds \ {o} : ops'[p].kind # "attach"

\* C33: a step of an attachDebugger call whose domain enabling failed opens
\* no native port, and when the call returns it returns failure and leaves
\* the state the status reports at not attached, domains not enabled and the
\* native host as it was; no other attachDebugger call being involved.
C33_AttachCleansUp ==
  [][\A o \in OpIds :
       ops'[o] # ops[o] /\ EnableFailedAlone(o) =>
         /\ connects' = connects
         /\ nativePort' = nativePort
         /\ ops'[o].pc = "done" =>
              /\ ops'[o].result = "failure"
              /\ debuggerState' = NoDebugger
              /\ debuggerTabId' = 0]_vars

\* attachDebugger call o returns success in this step
AttachSucceeds(o) ==
  /\ ops'[o].kind = "attach" /\ ops[o].pc # "done"
  /\ ops'[o].pc = "done" /\ ops'[o].result = "success"

\* C38: a native port is opened only by a step in which an attachDebugger
\* call succeeds: once detachDebugger, onDetach or onRemoved has disconnected
\* the native host, nativePort stays null until then, whatever response
\* becomes ready in between.
C38_PortStaysClosed ==
  [][nativePort = 0 /\ nativePort' # 0 => \E o \in OpIds : AttachSucceeds(o)]_vars

\* C39: in every state domainsEnabled implies attached, and attached implies
\* tabId is not null.
C39_StateConsistent ==
  /\ debuggerState.domainsEnabled => debuggerState.attached
  /\ debuggerState.attached => debuggerState.tabId # 0

\* attachDebugger call o is turned away in this step: its tab does not exist
\* or is a system page
Rejected(o) ==
  /\ ops[o].kind = "attach" /\ ops[o].pc = "get"
  /\ ops'[o] # ops[o] /\ ops'[o].failedAt = "get"

\* no other call is under way and the debugger is attached to another tab
Established(o) ==
  /\ \A p \in OpIds \ {o} : ops[p].pc \in {"idle", "done"}
  /\ debuggerState.attached /\ debuggerState.domainsEnabled
  /\ debuggerState.tabId # ops[o].tab
  /\ debuggerState.tabId \in session

\* C40: a step that turns an attachDebugger call away while the debugger is
\* attached to another tab leaves attached, tabId, domainsEnabled and the
\* browser's debugger session on that tab as they are.
C40_RejectedAttachKeepsAttachment ==
  [][\A o \in OpIds :
       Rejected(o) /\ Established(o) =>
         /\ debuggerState' = debuggerState
         /\ debuggerTabId' = debuggerTabId
         /\ session' = session]_vars

\* ---------------------------------------------------------------------
\* The bridge client process is restarted while the relay and the
\* extension keep running (src/mcp-server/build/index.js module state,
\* src/native-host/index.js sendToMCPServer).
\* ---------------------------------------------------------------------
InitRestart ==
  /\ RestartLoaded
  /\ BridgeLoaded /\ relayReady = TRUE
  /\ CodecLoaded /\ HostLoaded /\ ClockLoaded /\ DiagLoaded /\ ToolLoaded
  /\ ExtensionLoaded

\* the requests the process has written to its socket that the extension has
\* not received yet
InFlight == { [id |-> wire[n].id, instance |-> instance] : n \in (taken + 1)..Len(wire) }

\* the relay hands the next request to the extension (sendToExtension)
ExtensionTakes ==
  /\ taken < Len(wire)
  /\ taken' = taken + 1
  /\ atPeer' = atPeer \cup {[id |-> wire[taken + 1].id, instance |-> instance]}
  /\ UNCHANGED <<instance, answered>>
  /\ UNCHANGED <<bridgeVars, outsideRestart>>

\* the extension answers request r with a cdp_response carrying r.id; the
\* relay's sendToMCPServer writes it to the active client, the socket s of
\* the process that is running now, or drops it when there is none
ExtensionResponds(r) ==
  LET message == [type |-> "cdp_response", id |-> r.id, error |-> FALSE, result |-> "r1"]
      pending == PendingFor(pendingCDPRequests, message)
      open == isNativeHostConnected /\ listeners[socket]
      h == handleNativeMessage(message)
  IN
  /\ r \in atPeer
  /\ atPeer' = atPeer \ {r}
  /\ IF open
     THEN /\ timers' = h.timers /\ pendingCDPRequests' = h.map /\ calls' = h.calls
          /\ answered' = answered \cup
               {[id |-> r.id, producedFor |-> r.instance,
                 appliedTo |-> IF Correlates(message, pending) THEN instance ELSE 0]}
     ELSE UNCHANGED <<timers, pendingCDPRequests, calls, answered>>
  /\ UNCHANGED <<socket, readyState, listeners, isConnected, messageIdCounter,
                 reconnectTimer, reconnectAttempts, bridge, wire, ensure, relayReady>>
  /\ UNCHANGED <<instance, taken>>
  /\ UNCHANGED outsideRestart

\* the bridge client process exits and a new one is started: the module is
\* loaded again (let messageIdCounter = 1, an empty pendingCDPRequests, no
\* socket); what the old process had written reaches the extension
ProcessRestarts ==
  /\ instance < MaxInstances
  /\ instance' = instance + 1
  /\ atPeer' = atPeer \cup InFlight
  /\ taken' = 0
  /\ socket' = 0
  /\ readyState' = [s \in Sockets |-> "UNBORN"]
  /\ listeners' = [s \in Sockets |-> FALSE]
  /\ isConnected' = FALSE
  /\ messageIdCounter' = 1
  /\ pendingCDPRequests' = EmptyMap
  /\ timers' = {}
  /\ reconnectTimer' = FALSE
  /\ reconnectAttempts' = 0
  /\ bridge' = "init"
  /\ calls' = [c \in Calls |-> NoCall]
  /\ wire' = <<>>
  /\ ensure' = "idle"
  /\ UNCHANGED <<answered, relayReady>>
  /\ UNCHANGED outsideRestart

NextRestart ==
  \/ StartNativeBridge
  \/ ReconnectTimerFires
  \/ \E s \in Sockets : WsOpen(s)
  \/ \E c \in Dispatches : SendCDPCommand(c)
  \/ \E c \in Dispatches : ReconnectReturnsTrue(c)
  \/ ExtensionTakes
  \/ \E r \in atPeer : ExtensionResponds(r)
  \/ ProcessRestarts

SpecRestart == InitRestart /\ [][NextRestart]_vars

\* C34: a response the extension produced for a request of one bridge client
\* process is never applied to a request of another: every response that
\* settled a request settled one of the process its request came from.
C34_NoCrossInstanceDelivery ==
  \A a \in answered : a.appliedTo \in {0, a.producedFor}

====
